---- MODULE Spec2Model ----
(***************************************************************************)
(* Model of the rune_parser post-processing pipeline: define resolution,  *)
(* user-definition linking, extension merging, validation.                *)
(***************************************************************************)
EXTENDS Integers, Sequences, FiniteSets, TLC

VARIABLES
    definitions_list,   \* Vec<RuneFileDescription> being processed
    initial_list,       \* the file list as handed to the first pass
    append_extensions,  \* the flag of parser_rune_files
    pc,                 \* position in parser_rune_files / the function under study
    result,             \* outcome: "None", "Ok", "Panic" or a RuneParserError name
    passes,             \* the passes that have run, in order
    silent,             \* the flag of parser_rune_files that turns diagnostics off
    returned,           \* <<schema>> once parser_rune_files has returned Ok(schema), else <<>>
    arg                 \* argument of a pure function under study

vars == <<definitions_list, initial_list, append_extensions, pc, result, passes, silent, returned, arg>>

\* ------------------------------------------------------------------------
\* Bounds
\* ------------------------------------------------------------------------
MaxFiles == 2

\* ------------------------------------------------------------------------
\* Generic helpers
\* ------------------------------------------------------------------------
Range(s) == {s[i] : i \in 1..Len(s)}

RECURSIVE Flatten(_)
Flatten(ss) == IF Len(ss) = 0 THEN <<>> ELSE Head(ss) \o Flatten(Tail(ss))

\* Vec::swap_remove at the 1-based position k
SwapRemove(s, k) ==
    IF k = Len(s) THEN SubSeq(s, 1, Len(s) - 1)
    ELSE [j \in 1..(Len(s) - 1) |-> IF j = k THEN s[Len(s)] ELSE s[j]]

\* ------------------------------------------------------------------------
\* Data model
\* ------------------------------------------------------------------------
PositiveInteger(v) == [kind |-> "PositiveInteger", val |-> v, base |-> "Decimal"]
NegativeInteger(v) == [kind |-> "NegativeInteger", val |-> v, base |-> "Decimal"]
\* a float is held in halves, so that a fractional part can be told apart
FloatLiteral(h) == [kind |-> "Float", val |-> h, base |-> "Decimal"]

NoValue == [kind |-> "NoValue"]
NumericValue(lit) == [kind |-> "NumericLiteral", literal |-> lit]

DefineDefinition(n, v) == [name |-> n, value |-> v, redefinition |-> <<>>]
RedefineDefinition(n, v) == [name |-> n, value |-> v]

NoLink == [kind |-> "NoLink"]

PrimitiveType(p) == [kind |-> "Primitive", prim |-> p]
UserDefinedType(n) == [kind |-> "UserDefined", name |-> n, link |-> NoLink]
ArraySizeInteger(n) == [kind |-> "Integer", value |-> n]
ArraySizeUserDefinition(n) == [kind |-> "UserDefinition", definition |-> DefineDefinition(n, NoValue)]
ArrayOf(elem, count) == [kind |-> "Array", data_type |-> elem, element_count |-> count]

Numeric(i) == [kind |-> "Numeric", value |-> i]
Verifier == [kind |-> "Verifier", value |-> 0]

Member(id, type, index) == [identifier |-> id, data_type |-> type, index |-> index]

StructDefinition(n, members) == [name |-> n, members |-> members, reserved_indexes |-> <<>>]
MessageDefinition(n, fields) == [name |-> n, fields |-> fields, reserved_indexes |-> <<>>]

NoExtensions == [bitfields |-> <<>>, enums |-> <<>>, messages |-> <<>>, structs |-> <<>>]

EmptyFile(n) ==
    [name |-> n, bitfields |-> <<>>, defines |-> <<>>, redefines |-> <<>>, enums |-> <<>>,
     extensions |-> NoExtensions, includes |-> <<>>, structs |-> <<>>, messages |-> <<>>]

\* ArraySize::value
ArraySizeValue(size) ==
    IF size.kind = "Integer" THEN [ok |-> TRUE, value |-> size.value]
    ELSE LET definition == size.definition
             define_value == IF Len(definition.redefinition) = 0
                             THEN definition.value
                             ELSE definition.redefinition[1].value
         IN IF define_value.kind = "NumericLiteral" /\ define_value.literal.kind = "PositiveInteger"
            THEN [ok |-> TRUE, value |-> define_value.literal.val]
            ELSE [ok |-> FALSE, value |-> 0]

\* ------------------------------------------------------------------------
\* parse_define_statements
\* ------------------------------------------------------------------------
defines_of(files) == Flatten([i \in 1..Len(files) |-> files[i].defines])
redefines_of(files) == Flatten([i \in 1..Len(files) |-> files[i].redefines])

\* the pairwise loops over defines_list and over redefines_list
\* (HasDuplicateNameAdjacent: the check on neighbours in the list only)
HasDuplicateNameAdjacent(list) ==
    \E i \in 1..(Len(list) - 1) : list[i].name = list[i + 1].name
HasDuplicateName(list) ==
    \E i \in 1..Len(list) : \E j \in (i + 1)..Len(list) : list[i].name = list[j].name

\* the loop `for i in 0..redefines_list.len()` of one define: the range is
\* fixed when the loop starts (n), the list shrinks under swap_remove, and an
\* access past the end of the list is a runtime fault
RECURSIVE AttachRedefine(_, _, _, _)
AttachRedefine(define, redefines_list, i, n) ==
    IF i > n THEN [define |-> define, redefines_list |-> redefines_list, outcome |-> "Ok"]
    ELSE IF i > Len(redefines_list)
         THEN [define |-> define, redefines_list |-> redefines_list, outcome |-> "Panic"]
    ELSE IF define.name = redefines_list[i].name
         THEN AttachRedefine([define EXCEPT !.redefinition = <<redefines_list[i]>>],
                             SwapRemove(redefines_list, i), i + 1, n)
    ELSE AttachRedefine(define, redefines_list, i + 1, n)

\* the defines of one file, in order
RECURSIVE AttachFileDefines(_, _, _)
AttachFileDefines(defines, k, redefines_list) ==
    IF k > Len(defines) THEN [defines |-> defines, redefines_list |-> redefines_list, outcome |-> "Ok"]
    ELSE LET r == AttachRedefine(defines[k], redefines_list, 1, Len(redefines_list))
             updated == [defines EXCEPT ![k] = r.define]
         IN IF r.outcome # "Ok"
            THEN [defines |-> updated, redefines_list |-> r.redefines_list, outcome |-> r.outcome]
            ELSE AttachFileDefines(updated, k + 1, r.redefines_list)

\* the value an array count resolves to from one entry of defines_list
ResolvedDefineValue(user_define) ==
    IF Len(user_define.redefinition) = 0 THEN user_define.value
    ELSE user_define.redefinition[1].value

\* the loop over defines_list for one array count
RECURSIVE ResolveCount(_, _, _)
ResolveCount(definition, defines_list, k) ==
    IF k > Len(defines_list) THEN [definition |-> definition, outcome |-> "Ok"]
    ELSE IF defines_list[k].name = definition.name
         THEN LET define_value == ResolvedDefineValue(defines_list[k])
              IN IF define_value.kind = "NumericLiteral" /\ define_value.literal.kind = "PositiveInteger"
                 THEN ResolveCount([definition EXCEPT !.value = define_value], defines_list, k + 1)
                 ELSE [definition |-> definition, outcome |-> "InvalidNumericValue"]
    ELSE ResolveCount(definition, defines_list, k + 1)

\* one message field
ResolveField(field, defines_list) ==
    IF field.data_type.kind = "Array" /\ field.data_type.element_count.kind = "UserDefinition"
    THEN LET r == ResolveCount(field.data_type.element_count.definition, defines_list, 1)
         IN [field |-> [field EXCEPT !.data_type.element_count.definition = r.definition],
             outcome |-> r.outcome]
    ELSE [field |-> field, outcome |-> "Ok"]

RECURSIVE ResolveFields(_, _, _)
ResolveFields(fields, k, defines_list) ==
    IF k > Len(fields) THEN [fields |-> fields, outcome |-> "Ok"]
    ELSE LET r == ResolveField(fields[k], defines_list)
             updated == [fields EXCEPT ![k] = r.field]
         IN IF r.outcome # "Ok" THEN [fields |-> updated, outcome |-> r.outcome]
            ELSE ResolveFields(updated, k + 1, defines_list)

RECURSIVE ResolveMessages(_, _, _)
ResolveMessages(messages, k, defines_list) ==
    IF k > Len(messages) THEN [messages |-> messages, outcome |-> "Ok"]
    ELSE LET r == ResolveFields(messages[k].fields, 1, defines_list)
             updated == [messages EXCEPT ![k].fields = r.fields]
         IN IF r.outcome # "Ok" THEN [messages |-> updated, outcome |-> r.outcome]
            ELSE ResolveMessages(updated, k + 1, defines_list)

\* the loop `for file in definitions`
RECURSIVE ProcessDefineFiles(_, _, _, _)
ProcessDefineFiles(files, k, defines_list, redefines_list) ==
    IF k > Len(files) THEN [files |-> files, redefines_list |-> redefines_list, outcome |-> "Ok"]
    ELSE LET a == AttachFileDefines(files[k].defines, 1, redefines_list)
             withDefines == [files EXCEPT ![k].defines = a.defines]
         IN IF a.outcome # "Ok"
            THEN [files |-> withDefines, redefines_list |-> a.redefines_list, outcome |-> a.outcome]
            ELSE LET m == ResolveMessages(files[k].messages, 1, defines_list)
                     withMessages == [withDefines EXCEPT ![k].messages = m.messages]
                 IN IF m.outcome # "Ok"
                    THEN [files |-> withMessages, redefines_list |-> a.redefines_list, outcome |-> m.outcome]
                    ELSE ProcessDefineFiles(withMessages, k + 1, defines_list, a.redefines_list)

parse_define_statements(files) ==
    LET defines_list == defines_of(files)
        redefines_list == redefines_of(files)
    IN IF HasDuplicateName(defines_list)
       THEN [files |-> files, redefines_list |-> redefines_list, outcome |-> "MultipleDefinitions"]
       ELSE IF HasDuplicateName(redefines_list)
       THEN [files |-> files, redefines_list |-> redefines_list, outcome |-> "MultipleRedefinitions"]
       ELSE ProcessDefineFiles(files, 1, defines_list, redefines_list)

\* ------------------------------------------------------------------------
\* link_user_definitions
\* ------------------------------------------------------------------------
BitfieldLink(d) == [kind |-> "BitfieldLink", definition |-> d]
EnumLink(d) == [kind |-> "EnumLink", definition |-> d]
MessageLink(d) == [kind |-> "MessageLink", definition |-> d]
StructLink(d) == [kind |-> "StructLink", definition |-> d]

\* the first outcome that is not "Ok" (the checks stop there), "Ok" when none
FirstFailure(outcomes) ==
    IF \A k \in 1..Len(outcomes) : outcomes[k] = "Ok" THEN "Ok"
    ELSE outcomes[CHOOSE k \in 1..Len(outcomes) :
                     outcomes[k] # "Ok" /\ \A j \in 1..(k - 1) : outcomes[j] = "Ok"]

\* position of the first declaration named n in list, 0 when there is none
FirstNamed(list, n) ==
    IF \E i \in 1..Len(list) : list[i].name = n
    THEN CHOOSE i \in 1..Len(list) : list[i].name = n /\ \A j \in 1..(i - 1) : list[j].name # n
    ELSE 0

\* number of struct and message declarations: a chain of nested lookups longer
\* than this revisits a name, and the recursion then never ends
DeclarationCount(files) ==
    Len(Flatten([i \in 1..Len(files) |-> files[i].structs]))
    + Len(Flatten([i \in 1..Len(files) |-> files[i].messages]))

\* the declaration that the search of find_data_definition meets first: files
\* in order, and in a file bitfields, enums, structs, messages
FirstDeclaration(identifier, definitions) ==
    LET Found(f) == \E kind \in {"bitfields", "enums", "structs", "messages"} :
                       FirstNamed(definitions[f][kind], identifier) # 0
    IN IF \E f \in 1..Len(definitions) : Found(f)
       THEN LET f == CHOOSE f \in 1..Len(definitions) : Found(f) /\ \A g \in 1..(f - 1) : ~Found(g)
                kind == CASE FirstNamed(definitions[f].bitfields, identifier) # 0 -> "bitfields"
                          [] FirstNamed(definitions[f].enums, identifier) # 0 -> "enums"
                          [] FirstNamed(definitions[f].structs, identifier) # 0 -> "structs"
                          [] OTHER -> "messages"
            IN [kind |-> kind,
                definition |-> definitions[f][kind][FirstNamed(definitions[f][kind], identifier)]]
       ELSE [kind |-> "none"]

NotFound(outcome) == [outcome |-> outcome, link |-> NoLink]
Found(link) == [outcome |-> "Ok", link |-> link]

\* the items of a copy, each item of a user type with the link found for it
LinkedCopy(items, found) ==
    [k \in 1..Len(items) |->
        IF items[k].data_type.kind = "UserDefined"
        THEN [items[k] EXCEPT !.data_type.link = found[k].link]
        ELSE items[k]]

\* the first failure among the lookups of a copy, in order, "Ok" when none
CopyOutcome(found) == FirstFailure([k \in 1..Len(found) |-> found[k].outcome])

StructCopy(struct_definition, found) ==
    IF CopyOutcome(found) # "Ok" THEN NotFound(CopyOutcome(found))
    ELSE Found(StructLink([struct_definition EXCEPT !.members = LinkedCopy(struct_definition.members, found)]))

MessageCopy(message_definition, found) ==
    IF CopyOutcome(found) # "Ok" THEN NotFound(CopyOutcome(found))
    ELSE Found(MessageLink([message_definition EXCEPT !.fields = LinkedCopy(message_definition.fields, found)]))

RECURSIVE find_data_definition(_, _, _), MemberLookups(_, _, _), DataLink(_, _, _)

\* the recursive lookups for the members of a struct copy: only members whose
\* type is a user type, array members are left as they are
MemberLookups(members, definitions, fuel) ==
    [k \in 1..Len(members) |->
        IF members[k].data_type.kind = "UserDefined"
        THEN find_data_definition(members[k].data_type.name, definitions, fuel)
        ELSE Found(NoLink)]

\* the link for the declaration d that the search met first
DataLink(d, definitions, fuel) ==
    CASE d.kind = "bitfields" -> Found(BitfieldLink(d.definition))
      [] d.kind = "enums" -> Found(EnumLink(d.definition))
      [] d.kind = "structs" ->
            StructCopy(d.definition, MemberLookups(d.definition.members, definitions, fuel - 1))
      [] d.kind = "messages" -> NotFound("InvalidTypeUse")
      [] OTHER -> NotFound("UndefinedIdentifier")

find_data_definition(identifier, definitions, fuel) ==
    IF fuel = 0 THEN NotFound("StackOverflow")
    ELSE DataLink(FirstDeclaration(identifier, definitions), definitions, fuel)

\* the first message named identifier, files in order
FirstMessage(identifier, definitions) ==
    IF \E f \in 1..Len(definitions) : FirstNamed(definitions[f].messages, identifier) # 0
    THEN LET f == CHOOSE f \in 1..Len(definitions) :
                     /\ FirstNamed(definitions[f].messages, identifier) # 0
                     /\ \A g \in 1..(f - 1) : FirstNamed(definitions[g].messages, identifier) = 0
         IN <<definitions[f].messages[FirstNamed(definitions[f].messages, identifier)]>>
    ELSE <<>>

RECURSIVE find_field_definition(_, _, _), FieldLookups(_, _, _), FieldLink(_, _, _, _)

FieldLookups(fields, definitions, fuel) ==
    [k \in 1..Len(fields) |->
        IF fields[k].data_type.kind = "UserDefined"
        THEN find_field_definition(fields[k].data_type.name, definitions, fuel)
        ELSE Found(NoLink)]

\* a message of that name first, in any file; only then the other declarations
FieldLink(message, identifier, definitions, fuel) ==
    IF message = <<>> THEN find_data_definition(identifier, definitions, fuel)
    ELSE MessageCopy(message[1], FieldLookups(message[1].fields, definitions, fuel - 1))

find_field_definition(identifier, definitions, fuel) ==
    IF fuel = 0 THEN NotFound("StackOverflow")
    ELSE FieldLink(FirstMessage(identifier, definitions), identifier, definitions, fuel)

\* the fields of the messages and then the members of the structs of each
\* file, in the order the loops visit them
ItemPositions(files) ==
    Flatten([f \in 1..Len(files) |->
        Flatten([d \in 1..Len(files[f].messages) |->
                    [k \in 1..Len(files[f].messages[d].fields) |-> <<f, "messages", d, k>>]])
        \o Flatten([d \in 1..Len(files[f].structs) |->
                       [k \in 1..Len(files[f].structs[d].members) |-> <<f, "structs", d, k>>]])])

ItemAt(files, p) ==
    IF p[2] = "messages" THEN files[p[1]].messages[p[3]].fields[p[4]]
    ELSE files[p[1]].structs[p[3]].members[p[4]]

\* the lookup made for one field or member of the live copy
\* (LinkOfFieldsEverywhere: struct members looked up as message fields are)
LinkOfFieldsEverywhere(item, isField, reference, fuel) ==
    CASE item.data_type.kind = "Array" /\ item.data_type.data_type.kind = "UserDefined" ->
            find_field_definition(item.data_type.data_type.name, reference, fuel)
      [] item.data_type.kind = "Empty" /\ isField -> NotFound("EmptyMessageField")
      [] item.data_type.kind = "UserDefined" ->
            find_field_definition(item.data_type.name, reference, fuel)
      [] OTHER -> Found(NoLink)
LinkOf(item, isField, reference, fuel) ==
    CASE item.data_type.kind = "Array" /\ item.data_type.data_type.kind = "UserDefined" ->
            find_data_definition(item.data_type.data_type.name, reference, fuel)
      [] item.data_type.kind = "Empty" /\ isField -> NotFound("EmptyMessageField")
      [] item.data_type.kind = "UserDefined" /\ isField ->
            find_field_definition(item.data_type.name, reference, fuel)
      [] item.data_type.kind = "UserDefined" /\ ~isField ->
            find_data_definition(item.data_type.name, reference, fuel)
      [] OTHER -> Found(NoLink)

\* the item with the link that was found stored in it
WithLink(item, link) ==
    CASE item.data_type.kind = "Array" /\ item.data_type.data_type.kind = "UserDefined" ->
            [item EXCEPT !.data_type.data_type.link = link]
      [] item.data_type.kind = "UserDefined" -> [item EXCEPT !.data_type.link = link]
      [] OTHER -> item

\* the live copy with the item at position p replaced
SetItem(files, p, item) ==
    IF p[2] = "messages" THEN [files EXCEPT ![p[1]].messages[p[3]].fields[p[4]] = item]
    ELSE [files EXCEPT ![p[1]].structs[p[3]].members[p[4]] = item]

\* lookups that read the live copy as the links written so far have left it
RECURSIVE LiveLoop(_, _, _, _), LiveStep(_, _, _, _, _)
LiveStep(files, order, i, found, lookup) ==
    LiveLoop(IF lookup.outcome = "Ok"
             THEN SetItem(files, order[i], WithLink(ItemAt(files, order[i]), lookup.link))
             ELSE files,
             order, i + 1, Append(found, lookup))

LiveLoop(files, order, i, found) ==
    IF i > Len(order) THEN found
    ELSE LiveStep(files, order, i, found,
                  LinkOf(ItemAt(files, order[i]), order[i][2] = "messages", files,
                         DeclarationCount(files) + 1))

\* the lookups of the live copy, in order, against the clone taken at entry
\* (LookupsLive: against the live copy itself)
LookupsLive(files, order, immutable_reference) == LiveLoop(files, order, 1, <<>>)
Lookups(files, order, immutable_reference) ==
    [i \in 1..Len(order) |->
        LinkOf(ItemAt(files, order[i]), order[i][2] = "messages", immutable_reference,
               DeclarationCount(files) + 1)]

\* the position of the first lookup that failed, one past the end when none did
StopIndex(found) ==
    IF \A i \in 1..Len(found) : found[i].outcome = "Ok" THEN Len(found) + 1
    ELSE CHOOSE i \in 1..Len(found) :
            found[i].outcome # "Ok" /\ \A j \in 1..(i - 1) : found[j].outcome = "Ok"

\* the item at position p after the pass: linked when its lookup ran and succeeded
LinkedItem(files, order, found, stop, p) ==
    IF (CHOOSE i \in 1..Len(order) : order[i] = p) < stop
    THEN WithLink(ItemAt(files, p), found[CHOOSE i \in 1..Len(order) : order[i] = p].link)
    ELSE ItemAt(files, p)

\* the first failure ends the pass, the items before it keep their links
LinkUpTo(files, order, found, stop) ==
    [files |-> [f \in 1..Len(files) |->
                  [files[f] EXCEPT
                     !.messages = [d \in 1..Len(files[f].messages) |->
                                     [files[f].messages[d] EXCEPT
                                        !.fields = [k \in 1..Len(files[f].messages[d].fields) |->
                                                      LinkedItem(files, order, found, stop,
                                                                 <<f, "messages", d, k>>)]]],
                     !.structs = [d \in 1..Len(files[f].structs) |->
                                    [files[f].structs[d] EXCEPT
                                       !.members = [k \in 1..Len(files[f].structs[d].members) |->
                                                      LinkedItem(files, order, found, stop,
                                                                 <<f, "structs", d, k>>)]]]]],
     outcome |-> IF stop > Len(order) THEN "Ok" ELSE found[stop].outcome]

LinkFound(files, order, found) == LinkUpTo(files, order, found, StopIndex(found))

link_user_definitions(files) ==
    LinkFound(files, ItemPositions(files), Lookups(files, ItemPositions(files), files))

\* ------------------------------------------------------------------------
\* parse_extensions
\* ------------------------------------------------------------------------
Extension(file_name, definition) == [files |-> <<file_name>>, definition |-> definition]

\* the extension fragments of one kind, in file order, each with its file
CollectExtensions(files, kind) ==
    Flatten([f \in 1..Len(files) |->
                [k \in 1..Len(files[f].extensions[kind]) |->
                    Extension(files[f].name, files[f].extensions[kind][k])]])

\* some identifier of zs is an identifier of is
IdentifierCollides(zs, is) ==
    \E a \in 1..Len(zs) : \E b \in 1..Len(is) : zs[a].identifier = is[b].identifier

\* the merge loop of the bitfield and of the enum fragments (i, z 1-based)
RECURSIVE MergeLoop(_, _, _, _)
MergeLoop(list, i, z, list_size) ==
    IF i >= list_size THEN [list |-> list, outcome |-> "Ok"]
    ELSE IF z > list_size THEN MergeLoop(list, i + 1, i + 2, list_size)
    ELSE IF list[i].definition.name = list[z].definition.name
         THEN IF list[i].definition.backing_type # list[z].definition.backing_type
              THEN [list |-> list, outcome |-> "ExtensionMismatch"]
              ELSE IF IdentifierCollides(list[z].definition.members, list[i].definition.members)
              THEN [list |-> list, outcome |-> "IndexCollision"]
              ELSE LET merged == [list EXCEPT
                                    ![i].files = @ \o list[z].files,
                                    ![i].definition.members = @ \o list[z].definition.members]
                   IN MergeLoop(SwapRemove(merged, z), i, z, list_size - 1)
    ELSE MergeLoop(list, i, z + 1, list_size)

MergeSame(list) ==
    IF Len(list) > 1 THEN MergeLoop(list, 1, 2, Len(list))
    ELSE [list |-> list, outcome |-> "Ok"]

\* the merge loop over the message fragments: names and fields are compared
\* in message_extensions, files and members are moved in struct_extensions
RECURSIVE MergeMessagesLoop(_, _, _, _, _)
MergeMessagesLoop(message_extensions, struct_extensions, i, z, list_size) ==
    LET state(o) == [message_extensions |-> message_extensions,
                     struct_extensions |-> struct_extensions, outcome |-> o]
    IN IF i >= list_size THEN state("Ok")
       ELSE IF z > list_size
            THEN MergeMessagesLoop(message_extensions, struct_extensions, i + 1, i + 2, list_size)
       ELSE IF message_extensions[i].definition.name = message_extensions[z].definition.name
            THEN IF IdentifierCollides(message_extensions[z].definition.fields,
                                       message_extensions[i].definition.fields)
                 THEN state("IndexCollision")
                 ELSE IF z > Len(struct_extensions) THEN state("Panic")
                 ELSE LET merged == [struct_extensions EXCEPT
                                       ![i].files = @ \o struct_extensions[z].files,
                                       ![i].definition.members = @ \o struct_extensions[z].definition.members]
                      IN MergeMessagesLoop(message_extensions, SwapRemove(merged, z), i, z, list_size - 1)
       ELSE MergeMessagesLoop(message_extensions, struct_extensions, i, z + 1, list_size)

\* the merge loop over the struct fragments: names and members are compared
\* in struct_extensions, files and fields are moved in message_extensions;
\* the collision diagnostic reads message_extensions[i] unless silent
RECURSIVE MergeStructsLoop(_, _, _, _, _, _)
MergeStructsLoop(message_extensions, struct_extensions, i, z, list_size, quiet) ==
    LET state(o) == [message_extensions |-> message_extensions,
                     struct_extensions |-> struct_extensions, outcome |-> o]
    IN IF i >= list_size THEN state("Ok")
       ELSE IF z > list_size
            THEN MergeStructsLoop(message_extensions, struct_extensions, i + 1, i + 2, list_size, quiet)
       ELSE IF struct_extensions[i].definition.name = struct_extensions[z].definition.name
            THEN IF IdentifierCollides(struct_extensions[z].definition.members,
                                       struct_extensions[i].definition.members)
                 THEN IF ~quiet /\ i > Len(message_extensions) THEN state("Panic")
                      ELSE state("IndexCollision")
                 ELSE IF z > Len(message_extensions) THEN state("Panic")
                 ELSE LET merged == [message_extensions EXCEPT
                                       ![i].files = @ \o message_extensions[z].files,
                                       ![i].definition.fields = @ \o message_extensions[z].definition.fields]
                      IN MergeStructsLoop(SwapRemove(merged, z), struct_extensions, i, z, list_size - 1, quiet)
       ELSE MergeStructsLoop(message_extensions, struct_extensions, i, z + 1, list_size, quiet)

\* the four merge loops, in the order bitfields, enums, messages, structs
MergeExtensions(files, quiet) ==
    LET b == MergeSame(CollectExtensions(files, "bitfields"))
        e == MergeSame(CollectExtensions(files, "enums"))
        m0 == CollectExtensions(files, "messages")
        s0 == CollectExtensions(files, "structs")
        m == IF Len(m0) > 1 THEN MergeMessagesLoop(m0, s0, 1, 2, Len(m0))
             ELSE [message_extensions |-> m0, struct_extensions |-> s0, outcome |-> "Ok"]
        s == IF Len(m.struct_extensions) > 1
             THEN MergeStructsLoop(m.message_extensions, m.struct_extensions, 1, 2,
                                   Len(m.struct_extensions), quiet)
             ELSE m
        lists(o) == [bitfields |-> b.list, enums |-> e.list,
                     messages |-> s.message_extensions, structs |-> s.struct_extensions,
                     outcome |-> o]
    IN IF b.outcome # "Ok" THEN lists(b.outcome)
       ELSE IF e.outcome # "Ok" THEN lists(e.outcome)
       ELSE IF m.outcome # "Ok" THEN lists(m.outcome)
       ELSE lists(s.outcome)

ItemsField(kind) == IF kind = "messages" THEN "fields" ELSE "members"
HasBackingTypeBitfieldsOnly(kind) == kind = "bitfields"
HasBackingType(kind) == kind \in {"bitfields", "enums"}

\* one merged extension against the declarations d.. of one file
RECURSIVE AppendToDeclarations(_, _, _, _, _)
AppendToDeclarations(file, extension, kind, d, items) ==
    IF d > Len(file[kind]) THEN [file |-> file, outcome |-> "Ok"]
    ELSE IF file[kind][d].name = extension.definition.name
         THEN IF HasBackingType(kind)
                 /\ file[kind][d].backing_type # extension.definition.backing_type
              THEN [file |-> file, outcome |-> "ExtensionMismatch"]
              ELSE IF IdentifierCollides(extension.definition[items], file[kind][d][items])
              THEN [file |-> file, outcome |-> "IndexCollision"]
              ELSE LET appended == [file EXCEPT ![kind][d][items] = @ \o extension.definition[items]]
                       included == [appended EXCEPT
                                      !.includes = @ \o [k \in 1..Len(extension.files) |->
                                                            [file |-> extension.files[k]]]]
                   IN AppendToDeclarations(included, extension, kind, d + 1, items)
    ELSE AppendToDeclarations(file, extension, kind, d + 1, items)

\* one merged extension against every file
RECURSIVE AppendToFiles(_, _, _, _)
AppendToFiles(files, extension, kind, f) ==
    IF f > Len(files) THEN [files |-> files, outcome |-> "Ok"]
    ELSE LET r == AppendToDeclarations(files[f], extension, kind, 1, ItemsField(kind))
             updated == [files EXCEPT ![f] = r.file]
         IN IF r.outcome # "Ok" THEN [files |-> updated, outcome |-> r.outcome]
            ELSE AppendToFiles(updated, extension, kind, f + 1)

\* every merged extension of one kind
RECURSIVE AppendKind(_, _, _, _)
AppendKind(files, extensions, kind, k) ==
    IF k > Len(extensions) THEN [files |-> files, outcome |-> "Ok"]
    ELSE LET r == AppendToFiles(files, extensions[k], kind, 1)
         IN IF r.outcome # "Ok" THEN r
            ELSE AppendKind(r.files, extensions, kind, k + 1)

AppendExtensionsNoStructs(files, merged) ==
    LET b == AppendKind(files, merged.bitfields, "bitfields", 1)
        e == AppendKind(b.files, merged.enums, "enums", 1)
        m == AppendKind(e.files, merged.messages, "messages", 1)
    IN IF b.outcome # "Ok" THEN b
       ELSE IF e.outcome # "Ok" THEN e
       ELSE m

AppendExtensions(files, merged) ==
    LET b == AppendKind(files, merged.bitfields, "bitfields", 1)
        e == AppendKind(b.files, merged.enums, "enums", 1)
        m == AppendKind(e.files, merged.messages, "messages", 1)
        s == AppendKind(m.files, merged.structs, "structs", 1)
    IN IF b.outcome # "Ok" THEN b
       ELSE IF e.outcome # "Ok" THEN e
       ELSE IF m.outcome # "Ok" THEN m
       ELSE s

parse_extensionsAlwaysAppend(files, append_definitions, quiet) ==
    LET merged == MergeExtensions(files, quiet)
    IN IF merged.outcome # "Ok" THEN [files |-> files, merged |-> merged, outcome |-> merged.outcome]
       ELSE LET a == AppendExtensions(files, merged)
            IN [files |-> a.files, merged |-> merged, outcome |-> a.outcome]

parse_extensions(files, append_definitions, quiet) ==
    LET merged == MergeExtensions(files, quiet)
    IN IF merged.outcome # "Ok" THEN [files |-> files, merged |-> merged, outcome |-> merged.outcome]
       ELSE IF append_definitions
            THEN LET a == AppendExtensions(files, merged)
                 IN [files |-> a.files, merged |-> merged, outcome |-> a.outcome]
       ELSE [files |-> files, merged |-> merged, outcome |-> "Ok"]

\* ------------------------------------------------------------------------
\* NumericLiteral equality (impl PartialEq for NumericLiteral)
\* ------------------------------------------------------------------------
AsciiChar(c) == [kind |-> "AsciiChar", val |-> c, base |-> "Decimal"]
Boolean(b) == [kind |-> "Boolean", val |-> b, base |-> "Decimal"]

U8Max == 255
AsU8(c) == c % 256
\* a float holds val halves
Fract0(f) == f.val % 2 = 0
Whole(f) == f.val \div 2
\* `float as u8` saturates
FloatAsU8(f) == IF Whole(f) > U8Max THEN U8Max ELSE IF Whole(f) < 0 THEN 0 ELSE Whole(f)

LiteralEq(own, other) ==
    CASE own.kind = "AsciiChar" ->
            (CASE other.kind = "AsciiChar" -> own.val = other.val
               [] other.kind = "Boolean" -> AsU8(own.val) = other.val
               [] other.kind = "PositiveInteger" /\ other.val <= U8Max -> AsU8(own.val) = AsU8(other.val)
               [] other.kind = "Float" /\ Fract0(other) /\ other.val >= 0 -> AsU8(own.val) = FloatAsU8(other)
               [] OTHER -> FALSE)
      [] own.kind = "Boolean" ->
            (CASE other.kind = "AsciiChar" -> own.val = AsU8(other.val)
               [] other.kind = "Boolean" -> own.val = other.val
               [] other.kind = "PositiveInteger" -> own.val = other.val
               [] other.kind = "Float" /\ Fract0(other) /\ other.val >= 0 -> own.val = Whole(other)
               [] OTHER -> FALSE)
      [] own.kind = "PositiveInteger" ->
            (CASE other.kind = "AsciiChar" /\ own.val <= U8Max -> AsU8(own.val) = AsU8(other.val)
               [] other.kind = "Boolean" -> own.val = other.val
               [] other.kind = "PositiveInteger" -> own.val = other.val
               [] other.kind = "Float" /\ Fract0(other) /\ other.val >= 0 -> own.val = Whole(other)
               [] OTHER -> FALSE)
      [] own.kind = "NegativeInteger" ->
            (CASE other.kind = "NegativeInteger" -> own.val = other.val
               [] other.kind = "Float" /\ Fract0(other) /\ other.val <= 0 -> own.val = Whole(other)
               [] OTHER -> FALSE)
      [] own.kind = "Float" ->
            (CASE other.kind = "AsciiChar" /\ Fract0(own) /\ own.val >= 0 /\ Whole(own) <= U8Max
                    -> FloatAsU8(own) = AsU8(other.val)
               [] other.kind = "Float" -> own.val = other.val
               [] other.kind = "Boolean" /\ Fract0(own) /\ own.val >= 0 -> Whole(own) = other.val
               [] other.kind = "PositiveInteger" /\ Fract0(own) /\ own.val >= 0 -> Whole(own) = other.val
               [] other.kind = "NegativeInteger" /\ Fract0(own) /\ own.val <= 0 -> Whole(own) = other.val
               [] OTHER -> FALSE)
      [] OTHER -> FALSE

\* ------------------------------------------------------------------------
\* Validation
\* ------------------------------------------------------------------------
BitfieldMember(id, bits, index) ==
    [identifier |-> id, size |-> [signed |-> FALSE, bits |-> bits], index |-> index]
BitfieldDefinition(n, backing, members, reserved) ==
    [name |-> n, backing_type |-> backing, members |-> members, reserved_indexes |-> reserved]
EnumMember(id, value) == [identifier |-> id, value |-> value]
EnumDefinition(n, backing, members, reserved) ==
    [name |-> n, backing_type |-> backing, members |-> members, reserved_values |-> reserved]

\* FieldType::validate_bitfield_size
validate_bitfield_sizeStrict(backing_type, bitfield_size) ==
    CASE backing_type \in {"Char", "U8", "I8"} -> bitfield_size < 8
      [] backing_type \in {"U16", "I16"} -> bitfield_size < 16
      [] backing_type \in {"U32", "I32"} -> bitfield_size < 32
      [] backing_type \in {"U64", "I64"} -> bitfield_size < 64
      [] OTHER -> FALSE

validate_bitfield_size(backing_type, bitfield_size) ==
    CASE backing_type \in {"Char", "U8", "I8"} -> bitfield_size <= 8
      [] backing_type \in {"U16", "I16"} -> bitfield_size <= 16
      [] backing_type \in {"U32", "I32"} -> bitfield_size <= 32
      [] backing_type \in {"U64", "I64"} -> bitfield_size <= 64
      [] OTHER -> FALSE

RECURSIVE SumBits(_, _)
SumBits(members, k) == IF k = 0 THEN 0 ELSE SumBits(members, k - 1) + members[k].size.bits

Count(list, P(_)) == Cardinality({i \in 1..Len(list) : P(list[i])})

\* the declarations of one kind of every file, in file order
AllOf(files, kind) == Flatten([f \in 1..Len(files) |-> files[f][kind]])

\* the outcome of check applied to each element of list, in order
Checked(list, check(_)) == FirstFailure([k \in 1..Len(list) |-> check(list[k])])

\* validate_names
validate_names(files) ==
    LET names_list == Flatten([f \in 1..Len(files) |->
                          [k \in 1..Len(files[f].bitfields) |-> files[f].bitfields[k].name]
                       \o [k \in 1..Len(files[f].defines) |-> files[f].defines[k].name]
                       \o [k \in 1..Len(files[f].enums) |-> files[f].enums[k].name]
                       \o [k \in 1..Len(files[f].structs) |-> files[f].structs[k].name]])
    IN IF Len(names_list) = 0 THEN "Panic"
       ELSE IF \E i \in 1..(Len(names_list) - 1) :
                  \E j \in (i + 1)..Len(names_list) : names_list[j] = names_list[i]
       THEN "NameCollision"
       ELSE "Ok"

\* the checks of one bitfield member, in the order of the code
BitfieldMemberCheck(bitfield_definition, member) ==
    LET SameSlot(m) == m.index = member.index
        SameIdentifier(m) == m.identifier = member.identifier
    IN IF Count(bitfield_definition.members, SameSlot) > 1 THEN "IndexCollision"
       ELSE IF member.index \in Range(bitfield_definition.reserved_indexes) THEN "UseOfReservedIndex"
       ELSE IF Count(bitfield_definition.members, SameIdentifier) > 1 THEN "IdentifierCollision"
       ELSE "Ok"

BitfieldCheck(bitfield_definition) ==
    LET check(member) == BitfieldMemberCheck(bitfield_definition, member)
        members == Checked(bitfield_definition.members, check)
        total_bit_size == SumBits(bitfield_definition.members, Len(bitfield_definition.members))
    IN IF members # "Ok" THEN members
       ELSE IF ~validate_bitfield_size(bitfield_definition.backing_type, total_bit_size)
       THEN "InvalidTotalBitfieldSize"
       ELSE "Ok"

validate_bitfields(files) == Checked(AllOf(files, "bitfields"), BitfieldCheck)

EnumMemberCheckNoReserve(enum_definition, member) ==
    LET SameValue(m) == LiteralEq(m.value, member.value)
        SameIdentifier(m) == m.identifier = member.identifier
    IN IF Count(enum_definition.members, SameValue) > 1 THEN "ValueCollision"
       ELSE IF Count(enum_definition.members, SameIdentifier) > 1 THEN "IdentifierCollision"
       ELSE "Ok"

EnumMemberCheck(enum_definition, member) ==
    LET SameValue(m) == LiteralEq(m.value, member.value)
        SameIdentifier(m) == m.identifier = member.identifier
    IN IF Count(enum_definition.members, SameValue) > 1 THEN "ValueCollision"
       ELSE IF \E r \in 1..Len(enum_definition.reserved_values) :
                  LiteralEq(enum_definition.reserved_values[r], member.value)
       THEN "UseOfReservedIndex"
       ELSE IF Count(enum_definition.members, SameIdentifier) > 1 THEN "IdentifierCollision"
       ELSE "Ok"

EnumCheck(enum_definition) ==
    LET check(member) == EnumMemberCheck(enum_definition, member)
    IN Checked(enum_definition.members, check)

validate_enums(files) == Checked(AllOf(files, "enums"), EnumCheck)

\* FieldIndex::value and FieldIndex::is_verifier
FieldIndexValueNoAlias(index) == IF index.kind = "Verifier" THEN 32 ELSE index.value
FieldIndexValue(index) == IF index.kind = "Verifier" THEN 0 ELSE index.value
is_verifier(index) == index.kind = "Verifier"

StructMemberCheck(struct_definition, member) ==
    LET SameSlot(m) == FieldIndexValue(m.index) = FieldIndexValue(member.index)
        SameIdentifier(m) == m.identifier = member.identifier
    IN IF Count(struct_definition.members, SameSlot) > 1 THEN "IndexCollision"
       ELSE IF \E r \in 1..Len(struct_definition.reserved_indexes) :
                  FieldIndexValue(struct_definition.reserved_indexes[r]) = FieldIndexValue(member.index)
       THEN "UseOfReservedIndex"
       ELSE IF Count(struct_definition.members, SameIdentifier) > 1 THEN "IdentifierCollision"
       ELSE "Ok"

StructCheck(struct_definition) ==
    LET HasVerifierIndex(m) == is_verifier(m.index)
        check(member) == StructMemberCheck(struct_definition, member)
    IN IF Count(struct_definition.members, HasVerifierIndex) > 1 THEN "IndexCollision"
       ELSE Checked(struct_definition.members, check)

validate_structs(files) == Checked(AllOf(files, "structs"), StructCheck)

\* validate_parsed_files: names, bitfields, enums, structs, first failure wins
\* (validate_parsed_filesEnumsFirst: the enums checked before the bitfields)
validate_parsed_filesEnumsFirst(files) ==
    IF validate_names(files) # "Ok" THEN validate_names(files)
    ELSE IF validate_enums(files) # "Ok" THEN validate_enums(files)
    ELSE IF validate_bitfields(files) # "Ok" THEN validate_bitfields(files)
    ELSE validate_structs(files)
validate_parsed_files(files) ==
    IF validate_names(files) # "Ok" THEN validate_names(files)
    ELSE IF validate_bitfields(files) # "Ok" THEN validate_bitfields(files)
    ELSE IF validate_enums(files) # "Ok" THEN validate_enums(files)
    ELSE validate_structs(files)

\* ------------------------------------------------------------------------
\* parser_rune_files, from the post-processing on
\* ------------------------------------------------------------------------
\* where parser_rune_files goes after a pass: `?` returns the error at once
AfterPassIgnoringLinkErrors(pass, outcome) ==
    IF outcome # "Ok" /\ pass # "link_user_definitions" THEN "done"
    ELSE CASE pass = "parse_define_statements" -> "link_user_definitions"
           [] pass = "link_user_definitions" -> "parse_extensions"
           [] pass = "parse_extensions" -> "validate_parsed_files"
           [] pass = "validate_parsed_files" -> "return"

AfterPass(pass, outcome) ==
    IF outcome # "Ok" THEN "done"
    ELSE CASE pass = "parse_define_statements" -> "link_user_definitions"
           [] pass = "link_user_definitions" -> "parse_extensions"
           [] pass = "parse_extensions" -> "validate_parsed_files"
           [] pass = "validate_parsed_files" -> "return"

Ran(pass, outcome) == [pass |-> pass, outcome |-> outcome]

FinishPass(pass, outcome) ==
    /\ passes' = Append(passes, Ran(pass, outcome))
    /\ pc' = AfterPass(pass, outcome)
    /\ result' = IF outcome # "Ok" THEN outcome ELSE result
    /\ UNCHANGED <<initial_list, append_extensions, silent, returned, arg>>

ParseDefineStatements ==
    /\ pc = "parse_define_statements"
    /\ LET r == parse_define_statements(definitions_list)
       IN /\ definitions_list' = r.files
          /\ FinishPass("parse_define_statements", r.outcome)

LinkUserDefinitions ==
    /\ pc = "link_user_definitions"
    /\ LET r == link_user_definitions(definitions_list)
       IN /\ definitions_list' = r.files
          /\ FinishPass("link_user_definitions", r.outcome)

ParseExtensions ==
    /\ pc = "parse_extensions"
    /\ LET r == parse_extensions(definitions_list, append_extensions, silent)
       IN /\ definitions_list' = r.files
          /\ FinishPass("parse_extensions", r.outcome)

ValidateParsedFiles ==
    /\ pc = "validate_parsed_files"
    /\ definitions_list' = definitions_list
    /\ FinishPass("validate_parsed_files", validate_parsed_files(definitions_list))

ReturnOk ==
    /\ pc = "return"
    /\ pc' = "done"
    /\ result' = "Ok"
    /\ returned' = <<definitions_list>>
    /\ UNCHANGED <<definitions_list, initial_list, append_extensions, passes, silent, arg>>

\* ------------------------------------------------------------------------
\* Inputs
\* ------------------------------------------------------------------------
FileNames == <<"a", "b", "c", "d">>
Files == 1..MaxFiles

\* a list s when on, the empty list when off
When(on, s) == IF on THEN s ELSE <<>>

StartWith(files, first, input) ==
    /\ definitions_list = files
    /\ initial_list = files
    /\ pc = first
    /\ result = "None"
    /\ passes = <<>>
    /\ returned = <<>>
    /\ arg = input

Start(files, first) == StartWith(files, first, <<>>)

\* define / redefine / array placements
DefineValues == {NumericValue(PositiveInteger(4)), NumericValue(NegativeInteger(-1)),
                 NumericValue(FloatLiteral(9))}

CountedArray == ArrayOf(PrimitiveType("U8"), ArraySizeUserDefinition("N"))

\* dN, rN, rX: the files of define N, redefine N = 10 and redefine X; dS, rS:
\* the files of a second define N and a second redefine N (0: not declared)
DefineFiles(dN, value, rN, rX, holder, aFile, dS, rS) ==
    [i \in Files |->
        [EmptyFile(FileNames[i]) EXCEPT
            !.defines = When(dN = i, <<DefineDefinition("N", value)>>)
                        \o When(dS = i, <<DefineDefinition("N", NumericValue(PositiveInteger(5)))>>),
            !.redefines = When(rN = i, <<RedefineDefinition("N", NumericValue(PositiveInteger(10)))>>)
                          \o When(rX = i, <<RedefineDefinition("X", NumericValue(PositiveInteger(7)))>>)
                          \o When(rS = i, <<RedefineDefinition("N", NumericValue(PositiveInteger(11)))>>),
            !.messages = When(holder = "message" /\ aFile = i,
                              <<MessageDefinition("M", <<Member("a", CountedArray, Numeric(0))>>)>>),
            !.structs = When(holder = "struct" /\ aFile = i,
                             <<StructDefinition("S", <<Member("a", CountedArray, Numeric(0))>>)>>)]]

InitDefines ==
    /\ \E dN \in Files, value \in DefineValues, rN \in 0..MaxFiles, rX \in 0..MaxFiles,
          holder \in {"message", "struct"}, aFile \in Files, dS \in 0..MaxFiles,
          rS \in 0..MaxFiles :
            Start(DefineFiles(dN, value, rN, rX, holder, aFile, dS, rS),
                  "parse_define_statements")
    /\ append_extensions = FALSE
    /\ silent \in BOOLEAN

SpecDefines == InitDefines /\ [][ParseDefineStatements]_vars

\* ------------------------------------------------------------------------
\* Claims on parse_define_statements
\* ------------------------------------------------------------------------
Returned(pass, outcome) == passes = <<Ran(pass, outcome)>>

\* the element counts of the array items of every declaration of one kind
ArrayCounts(files, kind, items) ==
    UNION {UNION {{d[items][k].data_type.element_count :
                     k \in {k \in 1..Len(d[items]) : d[items][k].data_type.kind = "Array"}} :
                  d \in Range(files[f][kind])} :
           f \in 1..Len(files)}

Declares(files, kind, declaration) ==
    \E f \in 1..Len(files) : declaration \in Range(files[f][kind])

DefineN4 == DefineDefinition("N", NumericValue(PositiveInteger(4)))
RedefineN10 == RedefineDefinition("N", NumericValue(PositiveInteger(10)))
RedefineN11 == RedefineDefinition("N", NumericValue(PositiveInteger(11)))

\* C1: with define N = 4, every array of a message field whose count names N
\* has the value 10 after the pass when redefine N = 10 is declared, and 4
\* when it is not, wherever the three are placed
C1_RedefinitionRoundTrip ==
    (/\ Returned("parse_define_statements", "Ok")
     /\ Declares(initial_list, "defines", DefineN4)
     /\ ~Declares(initial_list, "redefines", RedefineN11))
    => \A count \in ArrayCounts(definitions_list, "messages", "fields") :
          (count.kind = "UserDefinition" /\ count.definition.name = "N")
          => ArraySizeValue(count) =
                [ok |-> TRUE,
                 value |-> IF Declares(initial_list, "redefines", RedefineN10) THEN 10 ELSE 4]

\* ------------------------------------------------------------------------
\* Sizes
\* ------------------------------------------------------------------------
\* Primitive::encoded_max_data_size
encoded_max_data_size(primitive) ==
    CASE primitive \in {"Bool", "Char", "I8", "U8"} -> 1
      [] primitive \in {"I16", "U16"} -> 2
      [] primitive \in {"F32", "I32", "U32"} -> 4
      [] primitive \in {"F64", "I64", "U64"} -> 8
      [] primitive \in {"I128", "U128"} -> 16

Size(v) == [ok |-> TRUE, value |-> v]
\* Err(error) of a size query
SizeError(error) == [ok |-> FALSE, value |-> 0, error |-> error]

RECURSIVE flat_size(_), ArrayTypeSize(_), MemberSize(_), SumMemberSizes(_, _)

\* ArrayType::size
ArrayTypeSize(data_type) ==
    IF data_type.kind = "Primitive" THEN Size(encoded_max_data_size(data_type.prim))
    ELSE CASE data_type.link.kind = "NoLink" -> SizeError("UndefinedIdentifier")
           [] data_type.link.kind = "EnumLink" ->
                Size(encoded_max_data_size(data_type.link.definition.backing_type))
           [] data_type.link.kind = "BitfieldLink" ->
                Size(encoded_max_data_size(data_type.link.definition.backing_type))
           [] data_type.link.kind = "MessageLink" -> SizeError("InvalidArrayType")
           [] data_type.link.kind = "StructLink" -> flat_size(data_type.link.definition)

\* Array::byte_size: `size()? * element_count.value()?`
\* (byte_sizeSum: the product taken as a sum)
byte_sizeSum(array) ==
    LET element == ArrayTypeSize(array.data_type)
        count == ArraySizeValue(array.element_count)
    IN IF ~element.ok THEN element
       ELSE IF ~count.ok THEN SizeError("InvalidArraySize")
       ELSE Size(element.value + count.value)
byte_size(array) ==
    LET element == ArrayTypeSize(array.data_type)
        count == ArraySizeValue(array.element_count)
    IN IF ~element.ok THEN element
       ELSE IF ~count.ok THEN SizeError("InvalidArraySize")
       ELSE Size(element.value * count.value)

\* the fixed width of one struct member
MemberSize(member) ==
    CASE member.data_type.kind = "Primitive" -> Size(encoded_max_data_size(member.data_type.prim))
      [] member.data_type.kind = "Array" -> byte_size(member.data_type)
      [] member.data_type.kind = "UserDefined" -> ArrayTypeSize(member.data_type)
      [] OTHER -> SizeError("InvalidTypeUse")

\* the sum in declaration order, the first failing member ending it
SumMemberSizes(members, k) ==
    IF k = 0 THEN Size(0)
    ELSE LET rest == SumMemberSizes(members, k - 1)
             this == MemberSize(members[k])
         IN IF ~rest.ok THEN rest
            ELSE IF ~this.ok THEN this
            ELSE Size(rest.value + this.value)

\* StructDefinition::flat_size
flat_size(struct_definition) ==
    SumMemberSizes(struct_definition.members, Len(struct_definition.members))

\* ------------------------------------------------------------------------
\* The whole pipeline
\* ------------------------------------------------------------------------
I32 == PrimitiveType("I32")
PointStruct == StructDefinition("Point", <<Member("x", I32, Numeric(0)), Member("y", I32, Numeric(1))>>)
PointExtension(collide) ==
    StructDefinition("Point", <<Member(IF collide THEN "x" ELSE "z", I32, Numeric(2))>>)

\* Point in file pA, its extension in file pB, a message with a Point field in
\* file pM (0: none); dup, ghost, collide and badIndex each plant one fault
PipelineFiles(pA, pB, pM, dup, ghost, collide, badIndex) ==
    [i \in Files |->
        [EmptyFile(FileNames[i]) EXCEPT
            !.defines = When(dup /\ i = 1, <<DefineN4, DefineN4>>),
            !.structs = When(pA = i, <<PointStruct>>)
                        \o When(ghost /\ pA = i,
                                <<StructDefinition("Other", <<Member("g", UserDefinedType("Ghost"), Numeric(0))>>)>>)
                        \o When(badIndex /\ pA = i,
                                <<StructDefinition("Bad", <<Member("p", I32, Numeric(0)),
                                                           Member("q", I32, Numeric(0))>>)>>),
            !.messages = When(pM = i,
                              <<MessageDefinition("M", <<Member("p", UserDefinedType("Point"), Numeric(0))>>)>>),
            !.extensions = [NoExtensions EXCEPT !.structs = When(pB = i, <<PointExtension(collide)>>)]]]

Init ==
    /\ \E pA \in Files, pB \in Files, pM \in 0..MaxFiles,
          dup \in BOOLEAN, ghost \in BOOLEAN, collide \in BOOLEAN, badIndex \in BOOLEAN :
            Start(PipelineFiles(pA, pB, pM, dup, ghost, collide, badIndex), "parse_define_statements")
    /\ append_extensions \in BOOLEAN
    /\ silent \in BOOLEAN

Next ==
    \/ ParseDefineStatements
    \/ LinkUserDefinitions
    \/ ParseExtensions
    \/ ValidateParsedFiles
    \/ ReturnOk

Spec == Init /\ [][Next]_vars

\* ------------------------------------------------------------------------
\* Claims on the pipeline
\* ------------------------------------------------------------------------
\* the file that declares the struct n, and that struct
FileOfStruct(files, n) == CHOOSE f \in 1..Len(files) : FirstNamed(files[f].structs, n) # 0
StructNamed(files, n) ==
    LET f == FileOfStruct(files, n) IN files[f].structs[FirstNamed(files[f].structs, n)]

\* file pA declares Point, another file pB extends it, nothing else is wrong
SpliceScenario(pA, pB) ==
    /\ pA # pB
    /\ \E pM \in 0..MaxFiles : initial_list = PipelineFiles(pA, pB, pM, FALSE, FALSE, FALSE, FALSE)

\* C2: in the Point scenario the pipeline returns Ok; with append_extensions
\* Point has three members, flat size 12, and the extending file is included
\* by the declaring file; without it Point keeps two members, flat size 8, and
\* the include list of the declaring file is unchanged
C2_ExtensionSplice ==
    \A pA \in Files, pB \in Files :
        (pc = "done" /\ SpliceScenario(pA, pB))
        => /\ result = "Ok"
           /\ returned = <<definitions_list>>
           /\ LET Point == StructNamed(definitions_list, "Point")
              IN IF append_extensions
                 THEN /\ Len(Point.members) = 3
                      /\ flat_size(Point) = Size(12)
                      /\ [file |-> FileNames[pB]] \in Range(definitions_list[pA].includes)
                 ELSE /\ Len(Point.members) = 2
                      /\ flat_size(Point) = Size(8)
                      /\ definitions_list[pA].includes = initial_list[pA].includes

C2_Witness ==
    /\ pc = "done"
    /\ append_extensions
    /\ \E pA \in Files, pB \in Files : SpliceScenario(pA, pB)
    /\ Len(StructNamed(definitions_list, "Point").members) = 3

PassNames == <<"parse_define_statements", "link_user_definitions", "parse_extensions",
               "validate_parsed_files">>

ClaimedOrder == <<"parse_define_statements", "parse_extensions", "link_user_definitions",
                  "validate_parsed_files">>

\* the snapshots linked into the message fields that name the struct n
SnapshotsOf(files, n) ==
    UNION {UNION {{d.fields[k].data_type.link :
                     k \in {k \in 1..Len(d.fields) : d.fields[k].data_type.kind = "UserDefined"
                                                      /\ d.fields[k].data_type.name = n}} :
                  d \in Range(files[f].messages)} :
           f \in 1..Len(files)}

\* C4: the passes run in the order defines, extensions, linking, validation, so
\* that the snapshot linked for a spliced type holds the spliced members
C4_PassOrder ==
    /\ \A i \in 1..Len(passes) : passes[i].pass = ClaimedOrder[i]
    /\ (returned # <<>> /\ append_extensions)
       => \A link \in SnapshotsOf(definitions_list, "Point") :
             link = StructLink(StructNamed(definitions_list, "Point"))

\* ------------------------------------------------------------------------
\* parse_extensions on its own
\* ------------------------------------------------------------------------
FlagsBitfield(id, index) == BitfieldDefinition("Flags", "U8", <<BitfieldMember(id, 1, index)>>, <<>>)
ColorEnum(id, v) == EnumDefinition("Color", "U8", <<EnumMember(id, PositiveInteger(v))>>, <<>>)
PointFragment(id, index) == StructDefinition("Point", <<Member(id, I32, Numeric(index))>>)
MFragment(id, index) == MessageDefinition("M", <<Member(id, I32, Numeric(index))>>)

\* the originals in file pO; struct fragments of Point in files s1 and s2,
\* message fragments of M in files m1 and m2, one bitfield and one enum
\* fragment in file be (0: absent); collide gives both struct fragments the
\* member z
ExtensionFiles(pO, s1, s2, m1, m2, be, collide) ==
    [i \in Files |->
        [EmptyFile(FileNames[i]) EXCEPT
            !.bitfields = When(pO = i, <<FlagsBitfield("f0", 0)>>),
            !.enums = When(pO = i, <<ColorEnum("Red", 0)>>),
            !.structs = When(pO = i, <<PointStruct>>),
            !.messages = When(pO = i, <<MFragment("a", 0)>>),
            !.extensions =
                [bitfields |-> When(be = i, <<FlagsBitfield("f1", 1)>>),
                 enums |-> When(be = i, <<ColorEnum("Green", 1)>>),
                 messages |-> When(m1 = i, <<MFragment("b", 1)>>) \o When(m2 = i, <<MFragment("c", 2)>>),
                 structs |-> When(s1 = i, <<PointFragment("z", 2)>>)
                             \o When(s2 = i, <<PointFragment(IF collide THEN "z" ELSE "w", 3)>>)]]]

Places == 0..MaxFiles

InitExtensions ==
    /\ \E pO \in Files, s1 \in Places, s2 \in Places, m1 \in Places, m2 \in Places,
          be \in Places, collide \in BOOLEAN :
            Start(ExtensionFiles(pO, s1, s2, m1, m2, be, collide), "parse_extensions")
    /\ append_extensions \in BOOLEAN
    /\ silent \in BOOLEAN

SpecExtensions == InitExtensions /\ [][ParseExtensions]_vars

\* parse_extensions has run, alone
ExtensionsRan == Len(passes) = 1 /\ passes[1].pass = "parse_extensions"

Declarations(file) ==
    <<file.bitfields, file.enums, file.structs, file.messages, file.includes>>

\* C5: without append_extensions, parse_extensions leaves the bitfields,
\* enums, structs, messages and includes of every file as they were, whatever
\* it returns
C5_NoSpliceFrame ==
    (ExtensionsRan /\ ~append_extensions)
    => \A f \in 1..Len(initial_list) :
          Declarations(definitions_list[f]) = Declarations(initial_list[f])

C5_Witness ==
    /\ ExtensionsRan
    /\ ~append_extensions
    /\ passes[1].outcome = "Ok"
    /\ \E f \in 1..Len(initial_list) : initial_list[f].extensions.structs # <<>>
    /\ \E f \in 1..Len(initial_list) : initial_list[f].extensions.bitfields # <<>>
    /\ definitions_list = initial_list

ExtensionKinds == {"bitfields", "enums", "messages", "structs"}

\* two fragments of one target, of one kind, share a member identifier
FragmentsCollide(files) ==
    \E kind \in ExtensionKinds :
        LET list == CollectExtensions(files, kind)
        IN \E a \in 1..Len(list), b \in 1..Len(list) :
              /\ a # b
              /\ list[a].definition.name = list[b].definition.name
              /\ IdentifierCollides(list[a].definition[ItemsField(kind)],
                                    list[b].definition[ItemsField(kind)])

\* the identifiers merged for the target n of one kind
MergedMembers(merged, kind, n) ==
    UNION {{e.definition[ItemsField(kind)][k].identifier :
               k \in 1..Len(e.definition[ItemsField(kind)])} :
           e \in {e \in Range(merged[kind]) : e.definition.name = n}}

TargetNames == {"Flags", "Color", "M", "Point"}

Permuted(files, p) == [i \in 1..Len(files) |-> files[p[i]]]

\* C6: in every order of the files, fragments that share no identifier merge
\* to the same member set per target, and fragments that share one give a
\* collision error
C6_MergeOrderIndependent ==
    ExtensionsRan
    => \A p \in Permutations(1..Len(initial_list)) :
          LET r == parse_extensions(Permuted(initial_list, p), append_extensions, silent)
              own == parse_extensions(initial_list, append_extensions, silent)
          IN IF FragmentsCollide(initial_list)
             THEN r.outcome = "IndexCollision" /\ passes[1].outcome = "IndexCollision"
             ELSE /\ r.outcome = "Ok"
                  /\ passes[1].outcome = "Ok"
                  /\ \A kind \in ExtensionKinds, n \in TargetNames :
                        MergedMembers(r.merged, kind, n) = MergedMembers(own.merged, kind, n)

\* ------------------------------------------------------------------------
\* The validators on their own
\* ------------------------------------------------------------------------
\* one validator, called directly on the files
Validate(pass, outcome) ==
    /\ pc = pass
    /\ pc' = "done"
    /\ passes' = Append(passes, Ran(pass, outcome))
    /\ result' = outcome
    /\ UNCHANGED <<definitions_list, initial_list, append_extensions, silent, returned, arg>>

ValidateBitfields == Validate("validate_bitfields", validate_bitfields(definitions_list))
ValidateEnums == Validate("validate_enums", validate_enums(definitions_list))
ValidateStructs == Validate("validate_structs", validate_structs(definitions_list))

MaxMembers == 2
MaxReserved == 2
MaxEnumValue == 4
MaxStructMembers == 3

\* the sequences over S of length at most n
SeqUpTo(S, n) == UNION {[1..k -> S] : k \in 0..n}

\* one declaration of the given kind, alone in file f
OneDeclaration(f, kind, declaration) ==
    [i \in Files |-> [EmptyFile(FileNames[i]) EXCEPT ![kind] = When(f = i, <<declaration>>)]]

BitfieldMembers == {BitfieldMember(id, bits, index) :
                       id \in {"a", "b"}, bits \in {3, 5, 8, 9}, index \in 0..2}

InitBitfields ==
    /\ \E f \in Files, backing \in {"U8", "U16"}, members \in SeqUpTo(BitfieldMembers, MaxMembers),
          reserved \in {<<>>, <<1>>} :
            Start(OneDeclaration(f, "bitfields", BitfieldDefinition("Flags", backing, members, reserved)),
                  "validate_bitfields")
    /\ append_extensions = FALSE
    /\ silent \in BOOLEAN

SpecBitfields == InitBitfields /\ [][ValidateBitfields]_vars

\* the bit width of an integer backing type
BackingBits(backing_type) ==
    CASE backing_type \in {"U8", "I8"} -> 8
      [] backing_type \in {"U16", "I16"} -> 16
      [] backing_type \in {"U32", "I32"} -> 32
      [] backing_type \in {"U64", "I64"} -> 64

BitsFit(b) == SumBits(b.members, Len(b.members)) <= BackingBits(b.backing_type)
NoBitfieldDuplicate(b) ==
    \A i \in 1..Len(b.members), j \in 1..Len(b.members) :
        i # j => /\ b.members[i].index # b.members[j].index
                 /\ b.members[i].identifier # b.members[j].identifier
NoReservedSlotUsed(b) ==
    \A i \in 1..Len(b.members) : b.members[i].index \notin Range(b.reserved_indexes)

\* C7: validate_bitfields returns Ok exactly when, for every bitfield, the
\* member widths sum to at most the backing width, no two members share a
\* slot or an identifier, and no member sits on a reserved slot
C7_BitfieldValidity ==
    (pc = "done" /\ passes = <<Ran("validate_bitfields", result)>>)
    => (result = "Ok"
        <=> \A b \in Range(AllOf(definitions_list, "bitfields")) :
               BitsFit(b) /\ NoBitfieldDuplicate(b) /\ NoReservedSlotUsed(b))

C7_Witness ==
    /\ pc = "done"
    /\ passes = <<Ran("validate_bitfields", "Ok")>>
    /\ \E b \in Range(AllOf(definitions_list, "bitfields")) :
          /\ Len(b.members) = 2
          /\ SumBits(b.members, 2) = BackingBits(b.backing_type)
          /\ b.reserved_indexes # <<>>

EnumValues == {PositiveInteger(v) : v \in 0..MaxEnumValue}
ColorMembers == <<EnumMember("Red", PositiveInteger(0)), EnumMember("Green", PositiveInteger(1)),
                  EnumMember("Blue", PositiveInteger(2))>>

\* s with x put after its first k elements
InsertAt(s, k, x) == SubSeq(s, 1, k) \o <<x>> \o SubSeq(s, k + 1, Len(s))

InitEnums ==
    /\ \E f \in Files, reserved \in SeqUpTo(EnumValues, MaxReserved),
          extra \in SeqUpTo({EnumMember(id, v) : id \in {"Extra", "Red"}, v \in EnumValues}, 1),
          k \in 0..Len(ColorMembers) :
            Start(OneDeclaration(f, "enums",
                                 EnumDefinition("Color", "U8",
                                                IF extra = <<>> THEN ColorMembers
                                                ELSE InsertAt(ColorMembers, k, extra[1]),
                                                reserved)),
                  "validate_enums")
    /\ append_extensions = FALSE
    /\ silent \in BOOLEAN

SpecEnums == InitEnums /\ [][ValidateEnums]_vars

MembersDistinct(e) ==
    \A i \in 1..Len(e.members), j \in 1..Len(e.members) :
        i # j => /\ e.members[i].value.val # e.members[j].value.val
                 /\ e.members[i].identifier # e.members[j].identifier
ReservedValueUsed(e) ==
    \E i \in 1..Len(e.members), r \in 1..Len(e.reserved_values) :
        e.members[i].value.val = e.reserved_values[r].val

\* C8: for an enum whose members are distinct in value and identifier,
\* validate_enums returns UseOfReservedIndex when some member value is a
\* reserved value, and Ok when none is
C8_ReservedEnumValue ==
    (pc = "done" /\ passes = <<Ran("validate_enums", result)>>)
    => \A e \in Range(AllOf(definitions_list, "enums")) :
          MembersDistinct(e)
          => result = IF ReservedValueUsed(e) THEN "UseOfReservedIndex" ELSE "Ok"

C8_Witness ==
    /\ pc = "done"
    /\ passes = <<Ran("validate_enums", "UseOfReservedIndex")>>
    /\ \E e \in Range(AllOf(definitions_list, "enums")) :
          /\ e.reserved_values = <<PositiveInteger(3)>>
          /\ e.members = Append(ColorMembers, EnumMember("Extra", PositiveInteger(3)))

StructMembers == {Member(id, I32, index) : id \in {"a", "v"},
                                           index \in {Verifier, Numeric(0), Numeric(1)}}

InitStructs ==
    /\ \E f \in Files, members \in SeqUpTo(StructMembers, MaxStructMembers),
          reserved \in {<<>>, <<Numeric(1)>>, <<Numeric(0)>>} :
            Start(OneDeclaration(f, "structs",
                                 [StructDefinition("S", members) EXCEPT !.reserved_indexes = reserved]),
                  "validate_structs")
    /\ append_extensions = FALSE
    /\ silent \in BOOLEAN

SpecStructs == InitStructs /\ [][ValidateStructs]_vars

VerifierCount(s) == Cardinality({i \in 1..Len(s.members) : s.members[i].index = Verifier})
\* one field at the verifier alias and another at explicit index 0
VerifierAndZero(s) ==
    \E i \in 1..Len(s.members), j \in 1..Len(s.members) :
        s.members[i].index = Verifier /\ s.members[j].index = Numeric(0)
AliasCollision(s) == VerifierAndZero(s) \/ VerifierCount(s) > 1

OtherDefect(s, k) ==
    \/ \E r \in 1..Len(s.reserved_indexes) :
          (IF s.reserved_indexes[r] = Verifier THEN 0 ELSE s.reserved_indexes[r].value)
          = (IF s.members[k].index = Verifier THEN 0 ELSE s.members[k].index.value)
    \/ \E j \in 1..Len(s.members) : j # k /\ s.members[j].identifier = s.members[k].identifier
\* the first member at the verifier alias or at index 0
FirstAtZero(s) ==
    CHOOSE k \in 1..Len(s.members) :
        /\ s.members[k].index \in {Verifier, Numeric(0)}
        /\ \A j \in 1..(k - 1) : s.members[j].index \notin {Verifier, Numeric(0)}

Pos(mag) == [neg |-> FALSE, mag |-> mag]
Neg(mag) == [neg |-> TRUE, mag |-> mag]

Pad(m, n) == [i \in 1..n |-> IF i <= n - Len(m) THEN 0 ELSE m[i - (n - Len(m))]]
Longest(a, b) == IF Len(a) > Len(b) THEN Len(a) ELSE Len(b)
IsZero(m) == \A i \in 1..Len(m) : m[i] = 0
MagLess(a, b) ==
    LET n == Longest(a, b)
        x == Pad(a, n)
        y == Pad(b, n)
    IN \E i \in 1..n : x[i] < y[i] /\ \A j \in 1..(i - 1) : x[j] = y[j]
WideLess(a, b) ==
    CASE a.neg /\ b.neg -> MagLess(b.mag, a.mag)
      [] a.neg /\ ~b.neg -> ~(IsZero(a.mag) /\ IsZero(b.mag))
      [] ~a.neg /\ b.neg -> FALSE
      [] OTHER -> MagLess(a.mag, b.mag)
WideLeq(a, b) == ~WideLess(b, a)

\* Range::contains, the end excluded
RangeContains(range, value) == WideLeq(range.start, value) /\ WideLess(value, range.end)

I8_MIN == Neg(<<128>>)
I8_MAX == Pos(<<127>>)
U8_MAX == Pos(<<255>>)
I16_MIN == Neg(<<32768>>)
I16_MAX == Pos(<<32767>>)
U16_MAX == Pos(<<65535>>)
I32_MIN == Neg(<<32768, 0>>)
I32_MAX == Pos(<<32767, 65535>>)
U32_MAX == Pos(<<65535, 65535>>)
I64_MAX == Pos(<<32767, 65535, 65535, 65535>>)
F32_MAX == Pos(<<65535, 65280, 0, 0, 0, 0, 0, 0>>)
F32_MIN == Neg(<<65535, 65280, 0, 0, 0, 0, 0, 0>>)

BYTE_RANGE == [start |-> I8_MIN, end |-> I8_MAX]
UBYTE_RANGE == [start |-> Pos(<<0>>), end |-> U8_MAX]
SHORT_RANGE == [start |-> I16_MIN, end |-> I16_MAX]
USHORT_RANGEWide == [start |-> Pos(<<0>>), end |-> Pos(<<2, 0, 0>>)]
USHORT_RANGE == [start |-> Pos(<<0>>), end |-> U16_MAX]
FLOAT_RANGE == [start |-> F32_MIN, end |-> F32_MAX]
INT_RANGE == [start |-> I32_MIN, end |-> I32_MAX]
UINT_RANGE == [start |-> Pos(<<0>>), end |-> U32_MAX]

can_back_enum(backing_type) ==
    backing_type \in {"Bool", "Char", "U8", "I8", "U16", "I16", "F32", "U32", "I32", "F64", "U64", "I64"}

IsPositive(value) == value.kind = "PositiveInteger"
IsNegative(value) == value.kind = "NegativeInteger"

\* FieldType::validate_value, for a type that can back an enum
validate_value(backing_type, value) ==
    CASE backing_type = "Bool" -> value.kind = "Boolean"
      [] backing_type \in {"Char", "I8"} ->
            (CASE IsPositive(value) -> WideLeq(value.val, I8_MAX)
               [] IsNegative(value) -> RangeContains(BYTE_RANGE, value.val)
               [] OTHER -> FALSE)
      [] backing_type = "U8" -> IsPositive(value) /\ RangeContains(UBYTE_RANGE, value.val)
      [] backing_type = "I16" ->
            (CASE IsPositive(value) -> WideLeq(value.val, I16_MAX)
               [] IsNegative(value) -> RangeContains(SHORT_RANGE, value.val)
               [] OTHER -> FALSE)
      [] backing_type = "U16" -> IsPositive(value) /\ RangeContains(USHORT_RANGE, value.val)
      [] backing_type = "F32" -> value.kind = "Float" /\ RangeContains(FLOAT_RANGE, value.val)
      [] backing_type = "I32" ->
            (CASE IsPositive(value) -> WideLeq(value.val, I32_MAX)
               [] IsNegative(value) -> RangeContains(INT_RANGE, value.val)
               [] OTHER -> FALSE)
      [] backing_type = "U32" -> IsPositive(value) /\ RangeContains(UINT_RANGE, value.val)
      [] backing_type = "F64" -> value.kind = "Float"
      [] backing_type = "I64" ->
            (CASE IsPositive(value) -> WideLess(value.val, I64_MAX)
               [] IsNegative(value) -> TRUE
               [] OTHER -> FALSE)
      [] backing_type = "U64" -> IsPositive(value)

\* validate_value(arg.value) on the type arg.backing_type; any other type
\* reaches unreachable!
ValidateValue ==
    /\ pc = "validate_value"
    /\ pc' = "done"
    /\ LET outcome == IF ~can_back_enum(arg.backing_type) THEN "Panic"
                      ELSE IF validate_value(arg.backing_type, arg.value) THEN "true"
                      ELSE "false"
       IN /\ result' = outcome
          /\ passes' = Append(passes, Ran("validate_value", outcome))
    /\ UNCHANGED <<definitions_list, initial_list, append_extensions, silent, returned, arg>>

MaxDelta == 2

\* limbs within MaxDelta of the limits of the 8 and 16 bit types
LowLimbs ==
    {l \in 0..65535 : \E b \in {0, 127, 255, 32767, 65535} : \E d \in 0..MaxDelta :
                         l = b + d \/ l = b - d}
HighLimbs == {<<0, 0, 0>>, <<0, 0, 1>>, <<0, 0, 32767>>, <<0, 0, 32768>>, <<0, 0, 65535>>,
              <<0, 1, 0>>, <<32767, 65535, 65535>>, <<32768, 0, 0>>, <<65535, 65535, 65535>>}
Magnitudes == {h \o <<l>> : h \in HighLimbs, l \in LowLimbs}

\* u64 values, i64 values that are not positive, a few other literals
Literals ==
    {PositiveInteger(Pos(m)) : m \in Magnitudes}
    \cup {NegativeInteger(Neg(m)) : m \in {m \in Magnitudes : ~MagLess(<<32768, 0, 0, 0>>, m)}}
    \cup {FloatLiteral(w) : w \in {Pos(<<0>>), Pos(<<1>>), F32_MAX, F32_MIN,
                                   Pos(<<1, 0, 0, 0, 0, 0, 0, 0, 0>>), Neg(<<1>>)}}
    \cup {Boolean(b) : b \in 0..1}
    \cup {AsciiChar(65)}

BackingTypes == {"Bool", "Char", "U8", "I8", "U16", "I16", "F32", "U32", "I32", "F64", "U64",
                 "I64", "U128"}

InitValue ==
    /\ \E backing_type \in BackingTypes, value \in Literals :
          StartWith(<<>>, "validate_value", [backing_type |-> backing_type, value |-> value])
    /\ append_extensions = FALSE
    /\ silent = FALSE

SpecValue == InitValue /\ [][ValidateValue]_vars

UnsignedByWidth == <<"U8", "U16", "U32", "U64">>
SignedByWidth == <<"I8", "I16", "I32", "I64">>
\* the pairs <<T, U>> of integer types of one signedness, T narrower than U
Widenings ==
    {<<w[i], w[j]>> : <<i, j>> \in {<<i, j>> \in (1..4) \X (1..4) : i < j},
                      w \in {UnsignedByWidth, SignedByWidth}}

\* C10: a literal that validate_value accepts for an integer type is accepted
\* for every wider integer type of the same signedness
C10_WideningMonotonic ==
    (pc = "done" /\ passes = <<Ran("validate_value", "true")>>)
    => \A pair \in Widenings :
          pair[1] = arg.backing_type => validate_value(pair[2], arg.value)

C10_Witness ==
    /\ pc = "done"
    /\ passes = <<Ran("validate_value", "true")>>
    /\ arg = [backing_type |-> "U32", value |-> PositiveInteger(Pos(<<0, 0, 65535, 65534>>))]

\* ------------------------------------------------------------------------
\* Fixed widths: StructDefinition::flat_size on its own
\* ------------------------------------------------------------------------
SizeOutcome(size) == IF size.ok THEN "Ok" ELSE size.error
SizeValue(size) == IF size.ok THEN <<size.value>> ELSE <<>>

FlatSize ==
    /\ pc = "flat_size"
    /\ pc' = "done"
    /\ result' = SizeOutcome(flat_size(arg))
    /\ returned' = SizeValue(flat_size(arg))
    /\ passes' = Append(passes, Ran("flat_size", SizeOutcome(flat_size(arg))))
    /\ UNCHANGED <<definitions_list, initial_list, append_extensions, silent, arg>>

MaxSizeMembers == 3

Linked(n, link) == [kind |-> "UserDefined", name |-> n, link |-> link]
ColorU16 == EnumDefinition("Color", "U16", <<>>, <<>>)
FlagsU32 == BitfieldDefinition("Flags", "U32", <<>>, <<>>)
EmptyM == MessageDefinition("M", <<>>)
\* an array count that names the define N, as parse_define_statements leaves it
CountN(value, redefinition) ==
    [kind |-> "UserDefinition",
     definition |-> [name |-> "N", value |-> value, redefinition |-> redefinition]]
CountN5 == CountN(NumericValue(PositiveInteger(5)), <<>>)
CountN4As10 ==
    CountN(NumericValue(PositiveInteger(4)),
           <<RedefineDefinition("N", NumericValue(PositiveInteger(10)))>>)

SizedTypes ==
    {PrimitiveType("U8"), PrimitiveType("I64"),
     Linked("Color", EnumLink(ColorU16)),
     Linked("Flags", BitfieldLink(FlagsU32)),
     Linked("Point", StructLink(PointStruct)),
     ArrayOf(PrimitiveType("U16"), ArraySizeInteger(3)),
     ArrayOf(Linked("Point", StructLink(PointStruct)), ArraySizeInteger(2)),
     ArrayOf(PrimitiveType("U8"), CountN5),
     ArrayOf(PrimitiveType("U8"), CountN4As10)}
UnsizedTypes ==
    {Linked("M", MessageLink(EmptyM)),
     UserDefinedType("Ghost"),
     ArrayOf(Linked("M", MessageLink(EmptyM)), ArraySizeInteger(2)),
     ArrayOf(PrimitiveType("U8"), CountN(NoValue, <<>>))}

MembersOf(types) == [i \in 1..Len(types) |-> Member(ToString(i), types[i], Numeric(i - 1))]

InitFlatSize ==
    /\ \E types \in SeqUpTo(SizedTypes \cup UnsizedTypes, MaxSizeMembers) :
          StartWith(<<>>, "flat_size", StructDefinition("S", MembersOf(types)))
    /\ append_extensions = FALSE
    /\ silent = FALSE

SpecFlatSize == InitFlatSize /\ [][FlatSize]_vars

\* the reference widths, in bytes
WidthOf ==
    [Bool |-> 1, Char |-> 1, I8 |-> 1, U8 |-> 1, I16 |-> 2, U16 |-> 2, F32 |-> 4, I32 |-> 4,
     U32 |-> 4, F64 |-> 8, I64 |-> 8, U64 |-> 8, I128 |-> 16, U128 |-> 16]
CountOf(element_count) ==
    IF element_count.kind = "Integer" THEN element_count.value
    ELSE LET definition == element_count.definition
             value == IF definition.redefinition = <<>> THEN definition.value
                      ELSE definition.redefinition[1].value
         IN IF value = NoValue THEN -1 ELSE value.literal.val
\* the known fixed width of a type, -1 where it has none
RECURSIVE KnownWidth(_), KnownWidths(_, _)
KnownWidth(data_type) ==
    CASE data_type.kind = "Primitive" -> WidthOf[data_type.prim]
      [] data_type.kind = "Array" ->
           IF KnownWidth(data_type.data_type) < 0 \/ CountOf(data_type.element_count) < 0 THEN -1
           ELSE KnownWidth(data_type.data_type) * CountOf(data_type.element_count)
      [] data_type.kind = "UserDefined" ->
           CASE data_type.link.kind \in {"EnumLink", "BitfieldLink"} ->
                  WidthOf[data_type.link.definition.backing_type]
             [] data_type.link.kind = "StructLink" ->
                  KnownWidths(data_type.link.definition.members, 1)
             [] OTHER -> -1
KnownWidths(members, k) ==
    IF k > Len(members) THEN 0
    ELSE IF KnownWidth(members[k].data_type) < 0 \/ KnownWidths(members, k + 1) < 0 THEN -1
    ELSE KnownWidth(members[k].data_type) + KnownWidths(members, k + 1)

FlatSizeRan == pc = "done" /\ passes = <<Ran("flat_size", result)>>
IsMessageMember(member) ==
    member.data_type.kind = "UserDefined" /\ member.data_type.link.kind = "MessageLink"
Reordered(struct_definition, p) ==
    [struct_definition EXCEPT
        !.members = [i \in 1..Len(struct_definition.members) |-> struct_definition.members[p[i]]]]

\* C11: the flat size of a struct is the sum of the known fixed widths of
\* its members (primitive width, flat size of a nested struct, backing width
\* of an enum or bitfield, element width times count of an array), it is the
\* same in every order of the members, and the query fails when a member is
\* a message
C11_FlatSizeAdditive ==
    FlatSizeRan
    => /\ (KnownWidths(arg.members, 1) >= 0
             => result = "Ok" /\ returned = <<KnownWidths(arg.members, 1)>>)
       /\ (KnownWidths(arg.members, 1) < 0 => result # "Ok" /\ returned = <<>>)
       /\ \A p \in Permutations(1..Len(arg.members)) :
             SizeValue(flat_size(Reordered(arg, p))) = returned
       /\ ((\E i \in 1..Len(arg.members) : IsMessageMember(arg.members[i])) => result # "Ok")

C11_Witness ==
    /\ FlatSizeRan
    /\ result = "Ok"
    /\ returned = <<24>>
    /\ arg.members[1].data_type = ArrayOf(Linked("Point", StructLink(PointStruct)), ArraySizeInteger(2))
    /\ arg.members[2].data_type = Linked("Color", EnumLink(ColorU16))
    /\ arg.members[3].data_type = ArrayOf(PrimitiveType("U16"), ArraySizeInteger(3))

\* ------------------------------------------------------------------------
\* Encoded sizes of messages
\* ------------------------------------------------------------------------
\* a size below 2^31 as a wide number
Wide(n) == Pos(<<n \div 65536, n % 65536>>)

\* Primitive::U8_RANGE, U16_RANGE and U32_RANGE, `MIN..MAX` with the end excluded
U8_RANGE == [start |-> Pos(<<0>>), end |-> Pos(<<255>>)]
U16_RANGE == [start |-> Pos(<<0>>), end |-> Pos(<<65535>>)]
U32_RANGE == [start |-> Pos(<<0>>), end |-> Pos(<<65535, 65535>>)]

HEADER_SIZE == 1
ARRAY_SIZE_U8 == 1
ARRAY_SIZE_U16 == 2
ARRAY_SIZE_U32 == 4
WORST_CASE_ENCODING == 5

\* optimal_encoded_data_size
\* (optimal_encoded_data_sizeTwoHeaders: a second header byte on the widest
\* length form for every non-empty payload)
optimal_encoded_data_sizeTwoHeaders(size) ==
    IF size = 0 THEN Size(0)
    ELSE IF RangeContains(U32_RANGE, Wide(size)) \/ RangeContains(U16_RANGE, Wide(size))
            \/ RangeContains(U8_RANGE, Wide(size))
    THEN Size(HEADER_SIZE + HEADER_SIZE + ARRAY_SIZE_U32 + size)
    ELSE SizeError("InvalidEncodedSize")
optimal_encoded_data_size(size) ==
    IF size = 0 THEN Size(0)
    ELSE IF size \in {1, 2, 4, 8} THEN Size(HEADER_SIZE + size)
    ELSE IF RangeContains(U8_RANGE, Wide(size)) THEN Size(HEADER_SIZE + ARRAY_SIZE_U8 + size)
    ELSE IF RangeContains(U16_RANGE, Wide(size)) THEN Size(HEADER_SIZE + ARRAY_SIZE_U16 + size)
    ELSE IF RangeContains(U32_RANGE, Wide(size)) THEN Size(HEADER_SIZE + ARRAY_SIZE_U32 + size)
    ELSE SizeError("InvalidEncodedSize")

\* Result<Option<u64>, RuneParserError>: Ok(Some(n)), Ok(None) and Err(error)
Known(n) == [outcome |-> "Ok", size |-> <<n>>]
Unknown == [outcome |-> "Ok", size |-> <<>>]
Failed(error) == [outcome |-> error, size |-> <<>>]
\* Ok(Some(size?))
SomeOf(size) == IF size.ok THEN Known(size.value) ELSE Failed(size.error)

EmptyType == [kind |-> "Empty"]

RECURSIVE full_encoded_size(_, _), OptimalLoop(_, _, _), WorstLoop(_, _, _, _)

\* the largest FieldIndex::value among fields[k..], at least `largest_index`
RECURSIVE LargestIndex(_, _, _)
LargestIndex(fields, k, largest_index) ==
    IF k > Len(fields) THEN largest_index
    ELSE IF FieldIndexValue(fields[k].index) > largest_index
         THEN LargestIndex(fields, k + 1, FieldIndexValue(fields[k].index))
    ELSE LargestIndex(fields, k + 1, largest_index)

\* the position of the first field whose index value is i, 0 when there is none
FirstAtIndex(fields, i) ==
    IF \E k \in 1..Len(fields) : FieldIndexValue(fields[k].index) = i
    THEN CHOOSE k \in 1..Len(fields) :
            /\ FieldIndexValue(fields[k].index) = i
            /\ \A j \in 1..(k - 1) : FieldIndexValue(fields[j].index) # i
    ELSE 0

OptimalAdd(fields, k, total_size, encoded) ==
    IF ~encoded.ok THEN encoded ELSE OptimalLoop(fields, k + 1, total_size + encoded.value)
OptimalStep(fields, k, total_size, value) ==
    IF value.outcome # "Ok" THEN SizeError(value.outcome)
    ELSE OptimalAdd(fields, k, total_size, optimal_encoded_data_size(value.size[1]))
OptimalLoop(fields, k, total_size) ==
    IF k > Len(fields) THEN Size(total_size)
    ELSE OptimalStep(fields, k, total_size, full_encoded_size(fields[k], FALSE))

\* MessageDefinition::optimal_full_encoded_size
optimal_full_encoded_size(message) == OptimalLoop(message.fields, 1, 0)

WorstStep(fields, i, largest_index, total_size, value) ==
    IF value.outcome # "Ok" THEN value
    ELSE IF value.size = <<>> THEN Unknown
    ELSE WorstLoop(fields, i + 1, largest_index, total_size + WORST_CASE_ENCODING + value.size[1])
WorstField(fields, i, largest_index, total_size, k) ==
    IF k = 0 THEN Unknown
    ELSE WorstStep(fields, i, largest_index, total_size, full_encoded_size(fields[k], TRUE))
\* the loop `for i in 0..(largest_index + 1)`
WorstLoop(fields, i, largest_index, total_size) ==
    IF i > largest_index THEN Known(total_size)
    ELSE WorstField(fields, i, largest_index, total_size, FirstAtIndex(fields, i))

\* MessageDefinition::worst_case_encoded_size
worst_case_encoded_size(message) ==
    WorstLoop(message.fields, 0, LargestIndex(message.fields, 1, 0), 0)

\* MessageField::full_encoded_size
full_encoded_size(field, worst_case) ==
    CASE field.data_type.kind = "Array" -> SomeOf(byte_size(field.data_type))
      [] field.data_type.kind = "Empty" -> Known(0)
      [] field.data_type.kind = "Primitive" ->
           Known(encoded_max_data_size(field.data_type.prim))
      [] field.data_type.kind = "UserDefined" ->
           CASE field.data_type.link.kind = "NoLink" -> Failed("UndefinedIdentifier")
             [] field.data_type.link.kind \in {"BitfieldLink", "EnumLink"} ->
                  Known(encoded_max_data_size(field.data_type.link.definition.backing_type))
             [] field.data_type.link.kind = "MessageLink" ->
                  IF worst_case THEN worst_case_encoded_size(field.data_type.link.definition)
                  ELSE SomeOf(optimal_full_encoded_size(field.data_type.link.definition))
             [] field.data_type.link.kind = "StructLink" ->
                  SomeOf(flat_size(field.data_type.link.definition))

SizeQuery(query, answer) ==
    /\ pc = "message_size"
    /\ pc' = "done"
    /\ result' = answer.outcome
    /\ returned' = answer.size
    /\ passes' = Append(passes, Ran(query, answer.outcome))
    /\ UNCHANGED <<definitions_list, initial_list, append_extensions, silent, arg>>

OptimalFullEncodedSize ==
    SizeQuery("optimal_full_encoded_size", SomeOf(optimal_full_encoded_size(arg)))
WorstCaseEncodedSize ==
    SizeQuery("worst_case_encoded_size", worst_case_encoded_size(arg))

MaxFields == 2

SubMessage == MessageDefinition("Sub", <<Member("v", PrimitiveType("U8"), Numeric(0))>>)
GapMessage == MessageDefinition("Gap", <<Member("v", PrimitiveType("U8"), Numeric(1))>>)
U8Array(count) == ArrayOf(PrimitiveType("U8"), ArraySizeInteger(count))

FieldTypes ==
    {EmptyType, PrimitiveType("U8"), PrimitiveType("U128"),
     Linked("Point", StructLink(PointStruct)),
     Linked("Color", EnumLink(ColorU16)),
     U8Array(3), U8Array(4), U8Array(255), U8Array(65535),
     ArrayOf(PrimitiveType("U16"), ArraySizeInteger(32768)),
     Linked("Sub", MessageLink(SubMessage)),
     Linked("Gap", MessageLink(GapMessage)),
     UserDefinedType("Ghost")}
FieldIndexes == {Numeric(0), Numeric(1), Verifier}

InitMessageSize ==
    /\ \E types \in SeqUpTo(FieldTypes, MaxFields) :
       \E indexes \in [1..Len(types) -> FieldIndexes] :
          StartWith(<<>>, "message_size",
                    MessageDefinition("M", [i \in 1..Len(types) |->
                                               Member(ToString(i), types[i], indexes[i])]))
    /\ append_extensions = FALSE
    /\ silent = FALSE

SpecMessageSize == InitMessageSize /\ [][OptimalFullEncodedSize \/ WorstCaseEncodedSize]_vars

\* the smallest of 1, 2 and 4 bytes that can represent a payload size
LengthHeader(payload) == IF payload <= 255 THEN 1 ELSE IF payload <= 65535 THEN 2 ELSE 4

IsSubMessage(field) ==
    field.data_type.kind = "UserDefined" /\ field.data_type.link.kind = "MessageLink"

\* the optimal size as described: per field a 1-byte header plus the payload,
\* an array field with a length header in addition, a sub-message field with
\* its own optimal size as payload; -1 where a payload has no known width
RECURSIVE DescribedOptimal(_, _)
DescribedOptimalField(field, payload, rest) ==
    IF payload < 0 \/ rest < 0 THEN -1
    ELSE IF field.data_type.kind = "Array" THEN 1 + LengthHeader(payload) + payload + rest
    ELSE 1 + payload + rest
DescribedOptimal(fields, k) ==
    IF k > Len(fields) THEN 0
    ELSE DescribedOptimalField(
            fields[k],
            IF fields[k].data_type.kind = "Empty" THEN 0
            ELSE IF IsSubMessage(fields[k])
                 THEN DescribedOptimal(fields[k].data_type.link.definition.fields, 1)
            ELSE KnownWidth(fields[k].data_type),
            DescribedOptimal(fields, k + 1))

OptimalRan == pc = "done" /\ passes = <<Ran("optimal_full_encoded_size", result)>>

\* C12: optimal_full_encoded_size is the sum over the fields of a 1-byte
\* header plus the payload size, an array field carrying in addition a length
\* header of 1 byte up to 255, 2 bytes up to 65535 and 4 bytes above, and a
\* sub-message field having the sub-message's optimal size as payload
C12_OptimalSize ==
    (/\ OptimalRan
     /\ \A k \in 1..Len(arg.fields) : arg.fields[k].data_type.kind # "Empty"
     /\ DescribedOptimal(arg.fields, 1) >= 0)
    => result = "Ok" /\ returned = <<DescribedOptimal(arg.fields, 1)>>

WorstRan == pc = "done" /\ passes = <<Ran("worst_case_encoded_size", result)>>

DeclaredIndexes(fields) == {FieldIndexValue(fields[k].index) : k \in 1..Len(fields)}
GapFree(fields) ==
    \A i \in 0..LargestIndex(fields, 1, 0) : i \in DeclaredIndexes(fields)

\* the worst case as described: known when the declared indexes leave no gap
\* and every sub-message field has a known worst case, and then the sum over
\* the fields of 5 bytes plus the payload; -1 where it is unknown
RECURSIVE DescribedWorst(_), DescribedWorstSum(_, _)
DescribedWorstField(payload, rest) ==
    IF payload < 0 \/ rest < 0 THEN -1 ELSE 5 + payload + rest
DescribedWorstSum(fields, k) ==
    IF k > Len(fields) THEN 0
    ELSE DescribedWorstField(
            IF fields[k].data_type.kind = "Empty" THEN 0
            ELSE IF IsSubMessage(fields[k])
                 THEN DescribedWorst(fields[k].data_type.link.definition.fields)
            ELSE KnownWidth(fields[k].data_type),
            DescribedWorstSum(fields, k + 1))
DescribedWorst(fields) == IF GapFree(fields) THEN DescribedWorstSum(fields, 1) ELSE -1

\* every field that is not a sub-message has a payload of known width
PayloadsKnown(fields) ==
    \A k \in 1..Len(fields) :
       \/ fields[k].data_type.kind = "Empty"
       \/ IsSubMessage(fields[k])
       \/ KnownWidth(fields[k].data_type) >= 0

\* C13: worst_case_encoded_size returns a number exactly when the declared
\* field indexes cover 0 up to the largest declared index and every
\* sub-message field has a known worst case, the number being the sum over
\* the fields of 5 bytes plus the payload; otherwise it returns None, neither
\* a number nor an error
C13_WorstCaseSize ==
    (WorstRan /\ Len(arg.fields) > 0 /\ PayloadsKnown(arg.fields))
    => /\ result = "Ok"
       /\ returned = IF DescribedWorst(arg.fields) >= 0 THEN <<DescribedWorst(arg.fields)>>
                     ELSE <<>>

\* ------------------------------------------------------------------------
\* Claims on duplicate defines and redefines
\* ------------------------------------------------------------------------
DefinesRan == pc = "done" /\ passes = <<Ran("parse_define_statements", result)>>

\* two declarations of one kind, anywhere in the file set, share a name
SharedName(files, kind) ==
    \E f, g \in 1..Len(files) : \E i \in 1..Len(files[f][kind]), j \in 1..Len(files[g][kind]) :
       /\ <<f, i>> # <<g, j>>
       /\ files[f][kind][i].name = files[g][kind][j].name

\* the original statement of C14: MultipleDefinitions whenever two defines
\* share a name and MultipleRedefinitions whenever two redefines share a name
C14_DuplicateAlwaysNamed ==
    DefinesRan
    => /\ (SharedName(initial_list, "defines") => result = "MultipleDefinitions")
       /\ (SharedName(initial_list, "redefines") => result = "MultipleRedefinitions")

\* C14 (amended): parse_define_statements returns MultipleDefinitions whenever
\* two defines of the file set share a name, and MultipleRedefinitions
\* whenever two redefines share a name and no two defines do; in both cases no
\* declaration has changed
C14_DuplicateRejected ==
    DefinesRan
    => /\ (SharedName(initial_list, "defines")
             => result = "MultipleDefinitions" /\ definitions_list = initial_list)
       /\ ((SharedName(initial_list, "redefines") /\ ~SharedName(initial_list, "defines"))
             => result = "MultipleRedefinitions" /\ definitions_list = initial_list)

\* redefines N, X, N in one file and a single define in another
C14_Witness ==
    /\ DefinesRan
    /\ result = "MultipleRedefinitions"
    /\ definitions_list = initial_list
    /\ Len(initial_list[1].redefines) = 3
    /\ Len(initial_list[2].defines) = 1

\* ------------------------------------------------------------------------
\* link_user_definitions on its own
\* ------------------------------------------------------------------------
MTarget == MessageDefinition("M", <<Member("v", PrimitiveType("U8"), Numeric(0))>>)
\* declarations that share the name of the message M
ShadowStruct == StructDefinition("M", <<Member("x", I32, Numeric(0))>>)
ShadowEnum == EnumDefinition("M", "U8", <<>>, <<>>)

MessageArray == ArrayOf(UserDefinedType("M"), ArraySizeInteger(2))
TypeRefs ==
    {PrimitiveType("U8"), UserDefinedType("M"), MessageArray, UserDefinedType("Ghost"),
     UserDefinedType("S")}

\* message M in file pM, a struct or enum named M in file pShadow (0: none),
\* struct S { a: sType } in file pS, message Q { f: fType; g: gType } in file pQ
LinkFiles(pM, shadow, pShadow, pS, sType, pQ, fType, gType) ==
    [i \in Files |->
        [EmptyFile(FileNames[i]) EXCEPT
            !.messages = When(pM = i, <<MTarget>>)
                         \o When(pQ = i, <<MessageDefinition("Q", <<Member("f", fType, Numeric(0)),
                                                                    Member("g", gType, Numeric(1))>>)>>),
            !.structs = When(shadow = "structs" /\ pShadow = i, <<ShadowStruct>>)
                        \o When(pS = i, <<StructDefinition("S", <<Member("a", sType, Numeric(0))>>)>>),
            !.enums = When(shadow = "enums" /\ pShadow = i, <<ShadowEnum>>)]]

InitLink ==
    /\ \E pM \in Files, shadow \in {"structs", "enums"}, pShadow \in 0..MaxFiles, pS \in Files,
          sType \in TypeRefs, pQ \in Files, fType \in TypeRefs, gType \in TypeRefs :
            Start(LinkFiles(pM, shadow, pShadow, pS, sType, pQ, fType, gType),
                  "link_user_definitions")
    /\ append_extensions = FALSE
    /\ silent = FALSE

SpecLink == InitLink /\ [][LinkUserDefinitions]_vars

LinkRan == Len(passes) = 1 /\ passes[1].pass = "link_user_definitions"

NamesOf(files, kind) ==
    {files[f][kind][d].name : <<f, d>> \in {<<f, d>> \in (1..Len(files)) \X (1..4) :
                                               d <= Len(files[f][kind])}}
DataKinds == {"bitfields", "enums", "structs"}

IsUserType(data_type) == data_type.kind = "UserDefined"
IsUserArray(data_type) == data_type.kind = "Array" /\ data_type.data_type.kind = "UserDefined"

\* the names used where only fixed-layout data is legal: the type of a struct
\* member and the element type of an array
DataUses(files) ==
    {ItemAt(files, p).data_type.name :
        p \in {p \in Range(ItemPositions(files)) :
                  p[2] = "structs" /\ IsUserType(ItemAt(files, p).data_type)}}
    \cup {ItemAt(files, p).data_type.data_type.name :
            p \in {p \in Range(ItemPositions(files)) : IsUserArray(ItemAt(files, p).data_type)}}
\* the names used as the type of a non-array message field
FieldUses(files) ==
    {ItemAt(files, p).data_type.name :
        p \in {p \in Range(ItemPositions(files)) :
                  p[2] = "messages" /\ IsUserType(ItemAt(files, p).data_type)}}

\* a bitfield, enum or struct named n is declared in the first file that
\* declares a message named n, or in a file before it
ShadowedName(n, files) ==
    \E f \in 1..Len(files) :
       /\ \E kind \in DataKinds : \E d \in 1..Len(files[f][kind]) : files[f][kind][d].name = n
       /\ \A g \in 1..(f - 1) : \A d \in 1..Len(files[g].messages) : files[g].messages[d].name # n

\* a name that nothing declares is used, or a struct has a member of its own type
OtherLinkDefect(files) ==
    \/ \E n \in DataUses(files) \cup FieldUses(files) :
          n \notin UNION {NamesOf(files, kind) : kind \in DataKinds \cup {"messages"}}
    \/ \E f \in 1..Len(files) : \E d \in 1..Len(files[f].structs) :
       \E k \in 1..Len(files[f].structs[d].members) :
          /\ IsUserType(files[f].structs[d].members[k].data_type)
          /\ files[f].structs[d].members[k].data_type.name = files[f].structs[d].name

\* the declaration with the links of its fields taken out again
WithoutLinks(message_definition) ==
    [message_definition EXCEPT
        !.fields = [k \in 1..Len(message_definition.fields) |->
                      IF IsUserType(message_definition.fields[k].data_type)
                      THEN [message_definition.fields[k] EXCEPT !.data_type.link = NoLink]
                      ELSE message_definition.fields[k]]]

\* after a successful pass every non-array message field that names a
\* declared message holds a MessageLink to a copy of a message of that name
FieldsLinked ==
    passes[1].outcome = "Ok"
    => \A p \in Range(ItemPositions(definitions_list)) :
          (/\ p[2] = "messages"
           /\ IsUserType(ItemAt(definitions_list, p).data_type)
           /\ ItemAt(definitions_list, p).data_type.name \in NamesOf(initial_list, "messages"))
          => /\ ItemAt(definitions_list, p).data_type.link.kind = "MessageLink"
             /\ \E f \in 1..Len(initial_list) :
                   WithoutLinks(ItemAt(definitions_list, p).data_type.link.definition)
                      \in Range(initial_list[f].messages)
             /\ ItemAt(definitions_list, p).data_type.link.definition.name
                   = ItemAt(definitions_list, p).data_type.name

\* the original statement of C15: InvalidTypeUse whenever a struct member or
\* an array element type names a declared message
C15_MessageUseAlwaysInvalid ==
    LinkRan
    => /\ (DataUses(initial_list) \cap NamesOf(initial_list, "messages") # {}
             => passes[1].outcome = "InvalidTypeUse")
       /\ FieldsLinked

\* C15 (amended): link_user_definitions fails whenever a struct member's type
\* or the element type of an array names a declared message that no bitfield,
\* enum or struct of the same name shadows in the search order, and the error
\* is InvalidTypeUse when the schema has no other unresolvable reference; a
\* non-array message field that names a message is linked to a copy of it
C15_MessageUseInvalid ==
    LinkRan
    => /\ ((\E n \in DataUses(initial_list) \cap NamesOf(initial_list, "messages") :
               ~ShadowedName(n, initial_list))
             => /\ passes[1].outcome # "Ok"
                /\ (~OtherLinkDefect(initial_list) => passes[1].outcome = "InvalidTypeUse"))
       /\ FieldsLinked

\* Q { f: M; g: u8 } is linked, Q { f: u8; g: [M; 2] } is rejected
C15_Witness ==
    /\ LinkRan
    /\ passes[1].outcome = "InvalidTypeUse"
    /\ ~OtherLinkDefect(initial_list)
    /\ \E f \in 1..Len(initial_list) : \E d \in 1..Len(initial_list[f].messages) :
          /\ initial_list[f].messages[d].name = "Q"
          /\ initial_list[f].messages[d].fields[1].data_type = PrimitiveType("U8")
          /\ initial_list[f].messages[d].fields[2].data_type = MessageArray
    /\ \A f \in 1..Len(initial_list) : \A d \in 1..Len(initial_list[f].structs) :
          initial_list[f].structs[d].members[1].data_type = PrimitiveType("U8")

C15_LinkedWitness ==
    /\ LinkRan
    /\ passes[1].outcome = "Ok"
    /\ \E p \in Range(ItemPositions(definitions_list)) :
          /\ p[2] = "messages"
          /\ IsUserType(ItemAt(definitions_list, p).data_type)
          /\ ItemAt(definitions_list, p).data_type.link = MessageLink(MTarget)

\* ------------------------------------------------------------------------
\* Backing types of bitfield and enum extensions
\* ------------------------------------------------------------------------
MaxFragments == 3

BackingChoices == {"U8", "U16"}
\* a bitfield fragment of Flags
FlagsFragment(backing, id) == BitfieldDefinition("Flags", backing, <<BitfieldMember(id, 1, 1)>>, <<>>)
\* the k-th enum fragment of Color
ColorFragment(backing, k) ==
    EnumDefinition("Color", backing, <<EnumMember(ToString(k), PositiveInteger(k))>>, <<>>)

FragmentChoices == [file : Files, backing : BackingChoices, id : {"f1", "f2"}]

\* the fragments that a choice places in file i, in the order of the choice
RECURSIVE FragmentsIn(_, _)
FragmentsIn(choices, i) ==
    IF Len(choices) = 0 THEN <<>>
    ELSE When(Head(choices).file = i, <<FlagsFragment(Head(choices).backing, Head(choices).id)>>)
         \o FragmentsIn(Tail(choices), i)

\* the originals Flags and Color, backed by U8, in the first file; the chosen
\* bitfield fragments in their files; the enum fragments in the last file;
\* with structs, two struct fragments of Point
BackingFiles(choices, enumBackings, structs) ==
    [i \in Files |->
        [EmptyFile(FileNames[i]) EXCEPT
            !.bitfields = When(i = 1, <<FlagsBitfield("f0", 0)>>),
            !.enums = When(i = 1, <<ColorEnum("Red", 0)>>),
            !.structs = When(i = 1, <<PointStruct>>),
            !.extensions =
                [bitfields |-> FragmentsIn(choices, i),
                 enums |-> When(i = MaxFiles, [k \in 1..Len(enumBackings) |->
                                                  ColorFragment(enumBackings[k], k)]),
                 messages |-> <<>>,
                 structs |-> When(structs /\ i = 1,
                                  <<PointFragment("z", 2), PointFragment("w", 3)>>)]]]

InitBacking ==
    /\ \E choices \in SeqUpTo(FragmentChoices, MaxFragments),
          enumBackings \in SeqUpTo(BackingChoices, 2), structs \in BOOLEAN :
            Start(BackingFiles(choices, enumBackings, structs), "parse_extensions")
    /\ append_extensions \in BOOLEAN
    /\ silent = FALSE

SpecBacking == InitBacking /\ [][ParseExtensions]_vars

FragmentsOf(files, kind) == CollectExtensions(files, kind)

\* two fragments of one kind with one target differ in the backing type
FragmentsDiffer(files, kind) ==
    \E a, b \in Range(FragmentsOf(files, kind)) :
       /\ a.definition.name = b.definition.name
       /\ a.definition.backing_type # b.definition.backing_type
\* a fragment differs in the backing type from the declaration it extends
OriginalDiffers(files, kind) ==
    \E a \in Range(FragmentsOf(files, kind)) :
       \E f \in 1..Len(files) : \E d \in 1..Len(files[f][kind]) :
          /\ files[f][kind][d].name = a.definition.name
          /\ files[f][kind][d].backing_type # a.definition.backing_type

BackingMismatch(files, append) ==
    \E kind \in {"bitfields", "enums"} :
       FragmentsDiffer(files, kind) \/ (append /\ OriginalDiffers(files, kind))

\* two different fragments of one kind with one target share an identifier
SharedIdentifier(files, kind) ==
    \E i, j \in 1..Len(FragmentsOf(files, kind)) :
       /\ i # j
       /\ FragmentsOf(files, kind)[i].definition.name = FragmentsOf(files, kind)[j].definition.name
       /\ IdentifierCollides(FragmentsOf(files, kind)[i].definition.members,
                             FragmentsOf(files, kind)[j].definition.members)

FieldChoices == [identifier : {"a", "b"}, index : {Numeric(0), Numeric(1), Verifier}]
FieldOf(choice) == Member(choice.identifier, PrimitiveType("U8"), choice.index)

\* struct S and define D (each optional) in the first file, a message named
\* mName with two fields in the last file, a second message named other
\* (or none) in the first file
ValidateFiles(hasStruct, hasDefine, mName, first, second, reserved, other) ==
    [i \in Files |->
        [EmptyFile(FileNames[i]) EXCEPT
            !.structs = When(hasStruct /\ i = 1,
                             <<StructDefinition("S", <<Member("x", I32, Numeric(0))>>)>>),
            !.defines = When(hasDefine /\ i = 1,
                             <<DefineDefinition("D", NumericValue(PositiveInteger(4)))>>),
            !.messages = When(other # "none" /\ i = 1,
                              <<MessageDefinition(other, <<Member("v", I32, Numeric(0))>>)>>)
                         \o When(i = MaxFiles,
                                 <<[MessageDefinition(mName, <<FieldOf(first), FieldOf(second)>>)
                                      EXCEPT !.reserved_indexes = reserved]>>)]]

InitValidate ==
    /\ \E hasStruct \in BOOLEAN, hasDefine \in BOOLEAN, mName \in {"M", "S", "D"},
          first \in FieldChoices, second \in FieldChoices, reserved \in {<<>>, <<1>>},
          other \in {"none", "M", "N"} :
            Start(ValidateFiles(hasStruct, hasDefine, mName, first, second, reserved, other),
                  "validate_parsed_files")
    /\ append_extensions = FALSE
    /\ silent = FALSE

SpecValidate == InitValidate /\ [][ValidateParsedFiles]_vars

ValidateRan == Len(passes) = 1 /\ passes[1].pass = "validate_parsed_files"

\* C17: validate_parsed_files returns NameCollision whenever two declarations
\* among the bitfields, defines, enums, structs and messages of all files
\* share a name
C17_MessageNameCollision ==
    (/\ ValidateRan
     /\ \E f, g \in 1..Len(initial_list) :
        \E kind, other \in {"bitfields", "defines", "enums", "structs", "messages"} :
        \E i \in 1..Len(initial_list[f][kind]), j \in 1..Len(initial_list[g][other]) :
           /\ <<f, kind, i>> # <<g, other, j>>
           /\ initial_list[f][kind][i].name = initial_list[g][other][j].name)
    => passes[1].outcome = "NameCollision"

\* a message breaks one of the index and identifier rules of structs
MessageDefect(message_definition) ==
    \/ \E i, j \in 1..Len(message_definition.fields) :
          /\ i # j
          /\ \/ FieldIndexValue(message_definition.fields[i].index)
                   = FieldIndexValue(message_definition.fields[j].index)
             \/ message_definition.fields[i].identifier = message_definition.fields[j].identifier
    \/ \E i \in 1..Len(message_definition.fields) :
          FieldIndexValue(message_definition.fields[i].index)
             \in Range(message_definition.reserved_indexes)

\* C18: a schema with a message that has two fields on one index (the
\* verifier alias counting as 0), more than one verifier-aliased field, a
\* field on a reserved index or two fields with one identifier is rejected
C18_MessagesValidated ==
    (/\ ValidateRan
     /\ \E f \in 1..Len(initial_list) : \E d \in 1..Len(initial_list[f].messages) :
           MessageDefect(initial_list[f].messages[d]))
    => passes[1].outcome # "Ok"

\* ------------------------------------------------------------------------
\* Claims on the limits of validate_value
\* ------------------------------------------------------------------------
\* the limits of the integer types, both included
InclusiveLimits ==
    [U8 |-> [low |-> Pos(<<0>>), high |-> U8_MAX],
     U16 |-> [low |-> Pos(<<0>>), high |-> U16_MAX],
     U32 |-> [low |-> Pos(<<0>>), high |-> U32_MAX],
     I8 |-> [low |-> I8_MIN, high |-> I8_MAX],
     I16 |-> [low |-> I16_MIN, high |-> I16_MAX],
     I32 |-> [low |-> I32_MIN, high |-> I32_MAX],
     I64 |-> [low |-> Neg(<<32768, 0, 0, 0>>), high |-> I64_MAX]]

ValueRan == pc = "done" /\ passes = <<Ran("validate_value", result)>>

\* C19: validate_value accepts an integer literal for an integer backing type
\* exactly when the value lies between the limits of the type, both limits
\* included, so the largest value of each type is accepted
C19_InclusiveRanges ==
    (/\ ValueRan
     /\ arg.backing_type \in DOMAIN InclusiveLimits
     /\ arg.value.kind \in {"PositiveInteger", "NegativeInteger"})
    => (result = "true"
          <=> /\ WideLeq(InclusiveLimits[arg.backing_type].low, arg.value.val)
              /\ WideLeq(arg.value.val, InclusiveLimits[arg.backing_type].high))

\* ------------------------------------------------------------------------
\* NumericLiteral equality on its own
\* ------------------------------------------------------------------------
\* a == b with a = arg.own and b = arg.other
CompareLiterals ==
    /\ pc = "eq"
    /\ pc' = "done"
    /\ result' = IF LiteralEq(arg.own, arg.other) THEN "true" ELSE "false"
    /\ passes' = Append(passes, Ran("eq", IF LiteralEq(arg.own, arg.other) THEN "true" ELSE "false"))
    /\ UNCHANGED <<definitions_list, initial_list, append_extensions, silent, returned, arg>>

\* characters '\0', '\x01', 'A', '\xFF'; integers around them; floats in
\* halves: 0.0, 0.5, 1.0, 65.0, 255.0, 300.0, -0.5, -1.0, -65.0
ComparedLiterals ==
    {AsciiChar(c) : c \in {0, 1, 65, 255}}
    \cup {Boolean(b) : b \in {0, 1}}
    \cup {PositiveInteger(v) : v \in {0, 1, 65, 255, 256, 300}}
    \cup {NegativeInteger(v) : v \in {0, -1, -65}}
    \cup {FloatLiteral(h) : h \in {0, 1, 2, 130, 510, 600, -1, -2, -130}}

InitLiterals ==
    /\ \E own \in ComparedLiterals, other \in ComparedLiterals :
          StartWith(<<>>, "eq", [own |-> own, other |-> other])
    /\ append_extensions = FALSE
    /\ silent = FALSE

SpecLiterals == InitLiterals /\ [][CompareLiterals]_vars

\* the numeric value of a literal, in halves
HalvesOf(literal) == IF literal.kind = "Float" THEN literal.val ELSE 2 * literal.val

CompareRan == pc = "done" /\ passes = <<Ran("eq", result)>>

\* C20: a == b is true exactly when a and b denote the same numeric value
\* (boolean as 0/1, character as its code, float without fractional part as
\* the integer), except that a positive-integer and a negative-integer
\* literal are never equal; and a == b is b == a
C20_ValueEquality ==
    CompareRan
    => /\ (result = "true"
             <=> /\ HalvesOf(arg.own) = HalvesOf(arg.other)
                 /\ {arg.own.kind, arg.other.kind} # {"PositiveInteger", "NegativeInteger"})
       /\ LiteralEq(arg.other, arg.own) = LiteralEq(arg.own, arg.other)

\* ------------------------------------------------------------------------
\* Claims on attaching redefines and resolving array counts
\* ------------------------------------------------------------------------
DefinesPassRan == Len(passes) = 1 /\ passes[1].pass = "parse_define_statements"

NamesIn(list) == {list[k].name : k \in 1..Len(list)}

\* C21: with pairwise distinct define names and pairwise distinct redefine
\* names parse_define_statements does not fault, and when it returns Ok every
\* define with a same-named redefine has that redefine attached and exactly
\* the redefines without a same-named define are left in the pending list
C21_RedefinesAttached ==
    (/\ DefinesPassRan
     /\ ~SharedName(initial_list, "defines")
     /\ ~SharedName(initial_list, "redefines"))
    => /\ passes[1].outcome # "Panic"
       /\ passes[1].outcome = "Ok"
            => /\ \A define \in Range(defines_of(definitions_list)) :
                  \A redefine \in Range(redefines_of(initial_list)) :
                     define.name = redefine.name => define.redefinition = <<redefine>>
               /\ NamesIn(parse_define_statements(initial_list).redefines_list)
                     = NamesIn(redefines_of(initial_list)) \ NamesIn(defines_of(initial_list))

\* C22: after parse_define_statements returns Ok every array, in struct
\* members as well as in message fields, whose count names a declared define
\* has a count that ArraySize::value resolves to a number
C22_CountsResolved ==
    (DefinesPassRan /\ passes[1].outcome = "Ok")
    => \A count \in ArrayCounts(definitions_list, "messages", "fields")
                      \cup ArrayCounts(definitions_list, "structs", "members") :
          (/\ count.kind = "UserDefinition"
           /\ count.definition.name \in NamesIn(defines_of(initial_list)))
          => ArraySizeValue(count).ok

\* ------------------------------------------------------------------------
\* Claims on the merge step of parse_extensions
\* ------------------------------------------------------------------------
\* the members of all fragments of the target n of one kind, concatenated in
\* the order the fragments were discovered
Discovered(files, kind, n) ==
    Flatten([k \in 1..Len(CollectExtensions(files, kind)) |->
                IF CollectExtensions(files, kind)[k].definition.name = n
                THEN CollectExtensions(files, kind)[k].definition[ItemsField(kind)]
                ELSE <<>>])

\* the merged fragments of the target n of one kind
MergedFor(merged, kind, n) ==
    {k \in 1..Len(merged[kind]) : merged[kind][k].definition.name = n}

\* C23: when no identifiers collide, the merge step of parse_extensions ends
\* without a runtime fault and leaves, for each kind and each target name that
\* has fragments, exactly one merged fragment whose members are the members of
\* the fragments of that name in discovery order
C23_MergeConcatenates ==
    (ExtensionsRan /\ ~FragmentsCollide(initial_list))
    => /\ MergeExtensions(initial_list, silent).outcome # "Panic"
       /\ \A kind \in ExtensionKinds : \A n \in TargetNames :
             Discovered(initial_list, kind, n) # <<>>
             => /\ Cardinality(MergedFor(MergeExtensions(initial_list, silent), kind, n)) = 1
                /\ \A k \in MergedFor(MergeExtensions(initial_list, silent), kind, n) :
                      MergeExtensions(initial_list, silent)[kind][k].definition[ItemsField(kind)]
                         = Discovered(initial_list, kind, n)

\* ------------------------------------------------------------------------
\* Claims on the lookup order of link_user_definitions
\* ------------------------------------------------------------------------
\* a declaration named T of each kind
TDeclaration(kind) ==
    CASE kind = "bitfields" -> BitfieldDefinition("T", "U8", <<BitfieldMember("t0", 1, 0)>>, <<>>)
      [] kind = "enums" -> EnumDefinition("T", "U8", <<EnumMember("T0", PositiveInteger(0))>>, <<>>)
      [] kind = "structs" -> StructDefinition("T", <<Member("x", I32, Numeric(0))>>)
      [] OTHER -> MessageDefinition("T", <<Member("v", PrimitiveType("U8"), Numeric(0))>>)

LookupKinds == <<"bitfields", "enums", "structs", "messages">>
TArray == ArrayOf(UserDefinedType("T"), ArraySizeInteger(2))

\* T declared as kind1 in file p1 and as kind2 in file p2 (0: not declared),
\* struct U { a: T; b: [T; 2] } in file pU, message Q { f: T; g: [T; 2] } in
\* file pQ (0: absent)
LookupFiles(kind1, p1, kind2, p2, pU, pQ) ==
    [i \in Files |->
        [kind \in DOMAIN EmptyFile(FileNames[i]) |->
            IF kind \in Range(LookupKinds)
            THEN When(p1 = i /\ kind1 = kind, <<TDeclaration(kind)>>)
                 \o When(p2 = i /\ kind2 = kind /\ ~(p1 = i /\ kind1 = kind), <<TDeclaration(kind)>>)
                 \o When(pU = i /\ kind = "structs",
                         <<StructDefinition("U", <<Member("a", UserDefinedType("T"), Numeric(0)),
                                                   Member("b", TArray, Numeric(1))>>)>>)
                 \o When(pQ = i /\ kind = "messages",
                         <<MessageDefinition("Q", <<Member("f", UserDefinedType("T"), Numeric(0)),
                                                    Member("g", TArray, Numeric(1))>>)>>)
            ELSE EmptyFile(FileNames[i])[kind]]]

InitLookup ==
    /\ \E kind1 \in Range(LookupKinds), p1 \in Files, kind2 \in Range(LookupKinds),
          p2 \in 0..MaxFiles, pU \in 0..MaxFiles, pQ \in 0..MaxFiles :
            Start(LookupFiles(kind1, p1, kind2, p2, pU, pQ), "link_user_definitions")
    /\ append_extensions = FALSE
    /\ silent = FALSE

SpecLookup == InitLookup /\ [][LinkUserDefinitions]_vars

\* the kind of highest precedence among the declarations of n in all files:
\* bitfields, then enums, then structs, then messages
DescribedKind(files, n) ==
    LookupKinds[CHOOSE k \in 1..4 :
                   /\ n \in NamesOf(files, LookupKinds[k])
                   /\ \A j \in 1..(k - 1) : n \notin NamesOf(files, LookupKinds[j])]

LinkKindOf(kind) ==
    CASE kind = "bitfields" -> "BitfieldLink"
      [] kind = "enums" -> "EnumLink"
      [] kind = "structs" -> "StructLink"
      [] OTHER -> "MessageLink"

\* the user type named by a field or member, directly or as an array element
UserTypeOf(item) ==
    IF IsUserArray(item.data_type) THEN item.data_type.data_type ELSE item.data_type

\* C24: after a successful pass every reference is linked to the declaration
\* of highest precedence (bitfield, enum, struct, message) among the
\* declarations of its name in all files, whatever the order of the files
C24_LookupPrecedence ==
    (LinkRan /\ passes[1].outcome = "Ok")
    => \A p \in Range(ItemPositions(definitions_list)) :
          (IsUserType(ItemAt(definitions_list, p).data_type)
              \/ IsUserArray(ItemAt(definitions_list, p).data_type))
          => UserTypeOf(ItemAt(definitions_list, p)).link.kind
                = LinkKindOf(DescribedKind(initial_list, UserTypeOf(ItemAt(definitions_list, p)).name))

\* ------------------------------------------------------------------------
\* Claims on the snapshots stored by link_user_definitions
\* ------------------------------------------------------------------------
RECURSIVE SelfContained(_)
\* the reference made by data_type, if any, carries a link, and so does every
\* reference inside the snapshot it is linked to
SelfContained(data_type) ==
    IF ~(IsUserType(data_type) \/ IsUserArray(data_type)) THEN TRUE
    ELSE LET link == IF IsUserArray(data_type) THEN data_type.data_type.link ELSE data_type.link
         IN CASE link.kind = "NoLink" -> FALSE
              [] link.kind = "StructLink" ->
                    \A k \in 1..Len(link.definition.members) :
                       SelfContained(link.definition.members[k].data_type)
              [] link.kind = "MessageLink" ->
                    \A k \in 1..Len(link.definition.fields) :
                       SelfContained(link.definition.fields[k].data_type)
              [] OTHER -> TRUE

\* C25: after link_user_definitions returns Ok, every reference of the live
\* declarations and every reference inside the struct and message snapshots
\* stored for them, at any depth and for array elements too, carries a link
C25_SnapshotsSelfContained ==
    (LinkRan /\ passes[1].outcome = "Ok")
    => \A p \in Range(ItemPositions(definitions_list)) :
          SelfContained(ItemAt(definitions_list, p).data_type)

\* the results link_user_definitions can return
LinkResults == {"Ok", "UndefinedIdentifier", "InvalidTypeUse", "EmptyMessageField"}

\* C26: link_user_definitions ends with Ok or with a reported error on every
\* input, also when a struct or message refers to itself directly or through
\* other declarations; it never recurses without bound
C26_LinkTerminates == LinkRan => passes[1].outcome \in LinkResults

\* the link that a lookup in the declarations as they were before the pass
\* gives for the reference at position p
BaselineLink(p) ==
    LinkOf(ItemAt(initial_list, p), p[2] = "messages", initial_list,
           DeclarationCount(initial_list) + 1).link

\* the lookup made for the reference: find_field_definition for a non-array
\* message field, find_data_definition for everything else
LookupClass(files, p) ==
    IF p[2] = "messages" /\ IsUserType(ItemAt(files, p).data_type) THEN "field" ELSE "data"

IsReference(data_type) == IsUserType(data_type) \/ IsUserArray(data_type)

OrderFiles(pB, bBits, pE, eDup, pS, sDup, pDup) ==
    [i \in Files |->
        [EmptyFile(FileNames[i]) EXCEPT
            !.bitfields = When(pB = i, <<BitfieldDefinition("Flags", "U8",
                                                            <<BitfieldMember("a", bBits, 0)>>, <<>>)>>),
            !.enums = When(pE = i,
                           <<EnumDefinition("Color", "U8",
                                            <<EnumMember("Red", PositiveInteger(0)),
                                              EnumMember("Green", PositiveInteger(IF eDup THEN 0 ELSE 1))>>,
                                            <<>>)>>),
            !.structs = When(pS = i,
                             <<StructDefinition("S", <<Member("x", I32, Numeric(0)),
                                                       Member(IF sDup THEN "x" ELSE "y", I32,
                                                              Numeric(1))>>)>>)
                        \o When(pDup = i,
                                <<StructDefinition("Flags", <<Member("x", I32, Numeric(0))>>)>>)]]

InitOrder ==
    /\ \E pB \in Files, bBits \in {8, 9}, pE \in Files, eDup \in BOOLEAN, pS \in Files,
          sDup \in BOOLEAN, pDup \in 0..MaxFiles :
            Start(OrderFiles(pB, bBits, pE, eDup, pS, sDup, pDup), "validate_parsed_files")
    /\ append_extensions = FALSE
    /\ silent \in BOOLEAN

SpecOrder == InitOrder /\ [][ValidateParsedFiles]_vars

\* a type name is declared twice among the bitfields, enums and structs
TypeNameTwice(files) ==
    \/ \E a \in DataKinds : \E b \in DataKinds : a # b /\ NamesOf(files, a) \cap NamesOf(files, b) # {}
    \/ \E kind \in DataKinds :
          Len(AllOf(files, kind)) # Cardinality(NamesOf(files, kind))
BitfieldViolation(files) == \E b \in Range(AllOf(files, "bitfields")) : ~BitsFit(b)
EnumViolation(files) == \E e \in Range(AllOf(files, "enums")) : ~MembersDistinct(e)
StructViolation(files) ==
    \E s \in Range(AllOf(files, "structs")) :
       \E i \in 1..Len(s.members) : \E j \in 1..Len(s.members) :
          i # j /\ s.members[i].identifier = s.members[j].identifier

\* C28: validate_parsed_files returns the error of the first failing check in
\* the order names, bitfields, enums, structs, whichever files the violations
\* are in: NameCollision for a duplicated type name, else the bitfield error,
\* else the enum error, else the struct error, else Ok
C28_ChecksInOrder ==
    ValidateRan
    => passes[1].outcome =
          IF TypeNameTwice(initial_list) THEN "NameCollision"
          ELSE IF BitfieldViolation(initial_list) THEN "InvalidTotalBitfieldSize"
          ELSE IF EnumViolation(initial_list) THEN "ValueCollision"
          ELSE IF StructViolation(initial_list) THEN "IdentifierCollision"
          ELSE "Ok"

\* a bitfield violation in the last file and an enum violation in the first
\* file, no duplicated name: the bitfield error is returned
C28_Witness ==
    /\ ValidateRan
    /\ passes[1].outcome = "InvalidTotalBitfieldSize"
    /\ ~TypeNameTwice(initial_list)
    /\ EnumViolation(<<initial_list[1]>>)
    /\ BitfieldViolation(<<initial_list[Len(initial_list)]>>)
    /\ Len(initial_list) > 1

\* a duplicated type name and a bitfield violation: NameCollision is returned
C28_NameWitness ==
    /\ ValidateRan
    /\ passes[1].outcome = "NameCollision"
    /\ TypeNameTwice(initial_list)
    /\ BitfieldViolation(initial_list)

\* C29: validate_parsed_files ends with Ok or with an error for every schema,
\* also for one that declares no bitfield, define, enum or struct: it never
\* ends with a runtime fault
C29_ValidateNeverFaults == ValidateRan => passes[1].outcome # "Panic"

\* ------------------------------------------------------------------------
\* Claims relating the two message size estimates
\* ------------------------------------------------------------------------
\* no two fields of the message hold one index (the verifier alias is index 0)
DistinctIndexes(fields) ==
    \A i \in 1..Len(fields) : \A j \in 1..Len(fields) :
       i # j => FieldIndexValue(fields[i].index) # FieldIndexValue(fields[j].index)

\* both estimates of the message are numbers
BothKnown(message) ==
    /\ worst_case_encoded_size(message).outcome = "Ok"
    /\ worst_case_encoded_size(message).size # <<>>
    /\ optimal_full_encoded_size(message).ok

====
